---- MODULE Spec2Model ----
(***************************************************************************)
(* A model of the booklet generator (main.js): the page packer             *)
(* groupImagesIntoPages with its two heuristics, and the run of            *)
(* combinePDFs for one instrument (catalog, baseline partition, index,     *)
(* image pages).                                                           *)
(*                                                                         *)
(* Lengths are JavaScript numbers in the source.  Here a length x is held  *)
(* exactly as the integer x * den, for a denominator den that is fixed     *)
(* for one call: Math.floor and Math.ceil divide by den.                   *)
(***************************************************************************)
EXTENDS Integers, Sequences, FiniteSets, TLC

VARIABLES
    \* ---- one call of groupImagesIntoPages (specification SpecPack)
    args,        \* [images, contentHeight, scale, imageGap, den]
    packPc,      \* "idle", "bfd", "knapsack", "score", "done"
    bfdQueue,    \* items of `sorted` packWithBFD has still to place
    bfdPages,    \* packWithBFD's pages: [items, used]
    rest,        \* packWithKnapsack's rest
    dpPages,     \* packWithKnapsack's pages
    iterations,  \* history: iterations of packWithKnapsack's while loop so far
    best         \* the pages groupImagesIntoPages returns

packVars == <<args, packPc, bfdQueue, bfdPages, rest, dpPages, iterations, best>>

VARIABLES
    \* ---- one run of combinePDFs(instrument) (specification Spec)
    pc,              \* position of the run in combinePDFs
    instrument,      \* the element of `instruments` the run is for
    trimmed,         \* fs.readdirSync("trimmed"): the file names, as read
    baseline,        \* [exists, lines]: the instrument's baseline file, as read
    imageFiles,      \* file names of the directory that include instrument.file
    validImages,     \* [path, filename, width, height] of the readable images
    originalImages,
    appendixImages,
    hasAppendix,
    font,            \* TRUE when a TTF font was loaded (font # null)
    maxWidthPx,
    originalPages,
    appendixPages,
    indexEntries,
    sorted,
    indexPages,      \* per index page, the entries written on it
    idxY,            \* y of the next index line, times den
    pageIndex,
    imagePageNumber,
    written,         \* the pages handed to pdfWriter.writePage, in order
    curPage,         \* the image page being drawn
    currentY,        \* times den
    pNo,             \* p of the image page loop, counted from 1
    pos,             \* position in sorted (index) or in allPages[p] (images)
    messages         \* what the run wrote with console.error, in order

runVars == <<pc, instrument, trimmed, baseline, imageFiles, validImages,
             originalImages, appendixImages, hasAppendix, font, maxWidthPx,
             originalPages, appendixPages, indexEntries, sorted, indexPages, idxY,
             pageIndex, imagePageNumber, written, curPage, currentY, pNo, pos,
             messages>>

VARIABLES
    \* ---- the loop over `instruments` (specification SpecLoop)
    world,           \* what is on disk when the program starts, and what fails
    disk,            \* the files written: a set of [path, content]
    runs,            \* per instrument: [pc, doc, log] of its call of combinePDFs
    loopPos          \* the instruments the loop has called combinePDFs for

loopVars == <<world, disk, runs, loopPos>>

VARIABLES
    \* ---- the title of one index line (specification SpecTitle)
    titlePc,         \* position in the truncation of the title
    titleItem,       \* [title, page]: the index entry being rendered
    glyphs,          \* the advance widths of the font, in 1/1000 em
    titleText,
    low,
    high

titleVars == <<titlePc, titleItem, glyphs, titleText, low, high>>

----------------------------------------------------------------------------
\* Bounds of the model

MaxTitle == 40          \* characters of the title of an index entry
MaxFairItems == 5       \* images of a call under the fair specification
MaxItems == 6           \* images handed to one call of groupImagesIntoPages

MaxFiles == 3           \* entries of the directory "trimmed"

MaxEntries == 70        \* tunes of the booklets whose index is paginated

----------------------------------------------------------------------------
\* Arithmetic and sequences

Floor(x, d) == x \div d

Ceil(x, d) == -((-x) \div d)

Max(a, b) == IF a >= b THEN a ELSE b

Range(s) == {s[i] : i \in DOMAIN s}

RECURSIVE SumSeq(_)
SumSeq(s) == IF s = <<>> THEN 0 ELSE Head(s) + SumSeq(Tail(s))

RECURSIVE Flatten(_)
Flatten(ss) == IF ss = <<>> THEN <<>> ELSE Head(ss) \o Flatten(Tail(ss))

\* The elements of s at the positions that are not in idxs, in order
RECURSIVE Without(_, _, _)
Without(s, idxs, i) ==
    IF i > Len(s) THEN <<>>
    ELSE (IF i \in idxs THEN <<>> ELSE <<s[i]>>) \o Without(s, idxs, i + 1)

\* Array.prototype.sort((a, b) => b.scaledHeight - a.scaledHeight): the sort is
\* stable, so the result is fixed by the rank of every element.
tallerRank(s, i) ==
    Cardinality({j \in DOMAIN s :
        \/ s[j].scaledHeight > s[i].scaledHeight
        \/ (s[j].scaledHeight = s[i].scaledHeight /\ j < i)}) + 1

sortTallestFirst(s) ==
    [k \in DOMAIN s |-> s[CHOOSE i \in DOMAIN s : tallerRank(s, i) = k]]

----------------------------------------------------------------------------
\* groupImagesIntoPages

\* images.map((img, idx) => ({...img, _idx: idx, scaledHeight: img.height * scale}))
makeItems(images, scale) ==
    [i \in DOMAIN images |->
        [img |-> images[i], idx |-> i - 1, scaledHeight |-> images[i].height * scale]]

\* pages.map((p) => p.map(({ scaledHeight, _idx, ...rest }) => rest))
stripHelpers(pages) ==
    [p \in DOMAIN pages |-> [k \in DOMAIN pages[p] |-> pages[p][k].img]]

\* -- Heuristic 1: Best-Fit Decreasing

\* Mutant: the gap before an image on a page in use is forgotten
bfdNeededNoGap(page, it, gap) == it.scaledHeight

bfdNeeded(page, it, gap) == (IF page.used > 0 THEN gap ELSE 0) + it.scaledHeight

\* Mutant: the first open page the item fits on is taken
RECURSIVE bfdScanFirstFit(_, _, _, _, _, _, _)
bfdScanFirstFit(pages, it, capacity, gap, i, bestIdx, bestResidual) ==
    IF i > Len(pages) THEN 0
    ELSE IF pages[i].used + bfdNeeded(pages[i], it, gap) <= capacity THEN i
    ELSE bfdScanFirstFit(pages, it, capacity, gap, i + 1, bestIdx, bestResidual)

\* The scan of the open pages, from page i on; bestIdx = 0 stands for -1 and
\* bestResidual for Infinity then.
RECURSIVE bfdScan(_, _, _, _, _, _, _)
bfdScan(pages, it, capacity, gap, i, bestIdx, bestResidual) ==
    IF i > Len(pages) THEN bestIdx
    ELSE LET needed == bfdNeeded(pages[i], it, gap)
             residual == capacity - (pages[i].used + needed)
         IN  IF /\ pages[i].used + needed <= capacity
                /\ (bestIdx = 0 \/ residual < bestResidual)
             THEN bfdScan(pages, it, capacity, gap, i + 1, i, residual)
             ELSE bfdScan(pages, it, capacity, gap, i + 1, bestIdx, bestResidual)

\* One iteration of `for (const it of sorted)`
bfdPlace(pages, it, capacity, gap) ==
    LET bestIdx == bfdScan(pages, it, capacity, gap, 1, 0, 0)
    IN  IF bestIdx = 0
        THEN Append(pages, [items |-> <<it>>, used |-> it.scaledHeight])
        ELSE [pages EXCEPT
                 ![bestIdx] = [items |-> Append(@.items, it),
                               used |-> @.used + bfdNeeded(@, it, gap)]]

RECURSIVE bfdLoop(_, _, _, _)
bfdLoop(pages, queue, capacity, gap) ==
    IF queue = <<>> THEN pages
    ELSE bfdLoop(bfdPlace(pages, Head(queue), capacity, gap), Tail(queue), capacity, gap)

bfdItems(pages) == [p \in DOMAIN pages |-> pages[p].items]

packWithBFD(itemsList, capacity, gap) ==
    bfdItems(bfdLoop(<<>>, sortTallestFirst(itemsList), capacity, gap))

\* -- Heuristic 2: per-page 0/1 knapsack

knapsackCapW(capacity, gap, den) == Floor(capacity + gap, den)

knapsackWeights(list, gap, den) ==
    [i \in DOMAIN list |-> Ceil(list[i].scaledHeight + gap, den)]

knapsackValues(list, den) ==
    [i \in DOMAIN list |-> Floor(list[i].scaledHeight, den)]

\* dpVal and dpSet are held sparsely: dp is the set of the entries
\* [w, val |-> dpVal[w], set |-> dpSet[w]] for the weights w with dpVal[w] # -1.
dpInitial == {[w |-> 0, val |-> 0, set |-> <<>>]}

dpWeights(dp) == {e.w : e \in dp}

dpAt(dp, w) == CHOOSE e \in dp : e.w = w

\* The inner loop `for (let w = capW; w >= wi; w--)` for item i.  It runs
\* downwards and wi >= 1, so every dpVal[w - wi] it reads is still the value
\* from before the loop.
dpItem(dp, i, wi, vi, capW) ==
    LET old == dpWeights(dp)
        reached == {x \in {w + wi : w \in old} : x <= capW}
        entry(w) ==
            IF w \notin reached THEN dpAt(dp, w)
            ELSE LET from == dpAt(dp, w - wi)
                     cand == from.val + vi
                     candSet == Append(from.set, i)
                 IN  IF w \notin old \/ cand > dpAt(dp, w).val
                     THEN [w |-> w, val |-> cand, set |-> candSet]
                     ELSE IF cand = dpAt(dp, w).val /\ Len(candSet) > Len(dpAt(dp, w).set)
                     THEN [w |-> w, val |-> cand, set |-> candSet]
                     ELSE dpAt(dp, w)
    IN  {entry(w) : w \in old \cup reached}

RECURSIVE dpFill(_, _, _, _, _)
dpFill(dp, i, weights, values, capW) ==
    IF i > Len(weights) THEN dp
    ELSE CHOOSE filled \in {dpFill(next, i + 1, weights, values, capW) :
                                next \in {dpItem(dp, i, weights[i], values[i], capW)}} : TRUE

\* Mutant: the greatest weight reached is taken, whatever its value
dpBestWHeaviest(dp) ==
    (CHOOSE e \in dp : \A u \in dp : e.w >= u.w).w

\* `for (let w = 0; w <= capW; w++) if (dpVal[w] > bestVal) ...`: the least
\* weight that reaches the greatest value
dpBestW(dp) ==
    (CHOOSE e \in dp : \A u \in dp :
        e.val > u.val \/ (e.val = u.val /\ e.w <= u.w)).w

\* `if (rest[i].scaledHeight > rest[tallest].scaledHeight) tallest = i`
tallestIdx(list) ==
    CHOOSE t \in DOMAIN list : \A i \in DOMAIN list :
        \/ list[t].scaledHeight > list[i].scaledHeight
        \/ (list[t].scaledHeight = list[i].scaledHeight /\ t <= i)

\* Mutant: no fallback to the tallest item when the knapsack chose nothing
knapsackChooseNoFallback(list, capacity, gap, den) ==
    CHOOSE chosenIdxs \in
        {dpAt(dp, dpBestW(dp)).set :
            dp \in {dpFill(dpInitial, 1, knapsackWeights(list, gap, den),
                           knapsackValues(list, den),
                           knapsackCapW(capacity, gap, den))}} : TRUE

\* chosenIdxs of one iteration of `while (rest.length > 0)`, as positions of list
knapsackChoose(list, capacity, gap, den) ==
    CHOOSE chosenIdxs \in
        {IF dpSet = <<>> THEN <<tallestIdx(list)>> ELSE dpSet :
            dpSet \in {dpAt(dp, dpBestW(dp)).set :
                dp \in {dpFill(dpInitial, 1, knapsackWeights(list, gap, den),
                               knapsackValues(list, den),
                               knapsackCapW(capacity, gap, den))}}} : TRUE

knapsackPageItems(list, chosenIdxs) ==
    sortTallestFirst([k \in DOMAIN chosenIdxs |-> list[chosenIdxs[k]]])

knapsackNewRest(list, chosenIdxs) == Without(list, Range(chosenIdxs), 1)

\* Mutant: the oversized items are dropped
knapsackOversizedDropped(itemsList, capacity) == <<>>

knapsackOversized(itemsList, capacity) ==
    SelectSeq(itemsList, LAMBDA it : it.scaledHeight > capacity)

knapsackRest(itemsList, capacity) ==
    SelectSeq(itemsList, LAMBDA it : it.scaledHeight <= capacity)

RECURSIVE knapsackLoop(_, _, _, _, _)
knapsackLoop(pages, list, capacity, gap, den) ==
    IF list = <<>> THEN pages
    ELSE LET chosenIdxs == knapsackChoose(list, capacity, gap, den)
         IN  knapsackLoop(Append(pages, knapsackPageItems(list, chosenIdxs)),
                          knapsackNewRest(list, chosenIdxs), capacity, gap, den)

packWithKnapsack(itemsList, capacity, gap, den) ==
    LET oversized == knapsackOversized(itemsList, capacity)
    IN  knapsackLoop([k \in DOMAIN oversized |-> <<oversized[k]>>],
                     knapsackRest(itemsList, capacity), capacity, gap, den)

\* -- Evaluate solutions and pick the best

pageUsed(page, imageGap) ==
    SumSeq([k \in DOMAIN page |->
        page[k].scaledHeight + (IF k > 1 THEN imageGap ELSE 0)])

scoreSlack(pages, contentHeight, imageGap) ==
    SumSeq([p \in DOMAIN pages |-> Max(0, contentHeight - pageUsed(pages[p], imageGap))])

score(pages, contentHeight, imageGap) ==
    [count |-> Len(pages), slack |-> scoreSlack(pages, contentHeight, imageGap),
     pages |-> pages]

\* Mutant: ties in page count and slack go to the BFD packing
pickBestTieToBFD(sB, sD) ==
    IF sD.count < sB.count THEN sD
    ELSE IF sD.count > sB.count THEN sB
    ELSE IF sD.slack < sB.slack THEN sD
    ELSE sB

\* Mutant: the comparison of the page counts is inverted
pickBestMorePages(sB, sD) ==
    IF sD.count > sB.count THEN sD
    ELSE IF sD.count < sB.count THEN sB
    ELSE IF sD.slack <= sB.slack THEN sD
    ELSE sB

pickBest(sB, sD) ==
    IF sD.count < sB.count THEN sD
    ELSE IF sD.count > sB.count THEN sB
    ELSE IF sD.slack <= sB.slack THEN sD
    ELSE sB

groupImagesIntoPages(images, contentHeight, scale, imageGap, den) ==
    LET itemsList == makeItems(images, scale)
        pagesBFD == packWithBFD(itemsList, contentHeight, imageGap)
        pagesDP == packWithKnapsack(itemsList, contentHeight, imageGap, den)
    IN  stripHelpers(pickBest(score(pagesBFD, contentHeight, imageGap),
                              score(pagesDP, contentHeight, imageGap)).pages)

----------------------------------------------------------------------------
\* The variables of the specification that is not running

\* No index line being rendered
TitleIdle ==
    /\ titlePc = "idle"
    /\ titleItem = [title |-> <<>>, page |-> 0]
    /\ glyphs = [name |-> ""]
    /\ titleText = <<>>
    /\ low = 0
    /\ high = 0

\* No run of combinePDFs
RunIdle ==
    /\ pc = "idle"
    /\ instrument = [file |-> "", title |-> ""]
    /\ trimmed = <<>>
    /\ baseline = [exists |-> FALSE, lines |-> <<>>]
    /\ imageFiles = <<>>
    /\ validImages = <<>>
    /\ originalImages = <<>>
    /\ appendixImages = <<>>
    /\ hasAppendix = FALSE
    /\ font = FALSE
    /\ maxWidthPx = 1
    /\ originalPages = <<>>
    /\ appendixPages = <<>>
    /\ indexEntries = <<>>
    /\ sorted = <<>>
    /\ indexPages = <<>>
    /\ idxY = 0
    /\ pageIndex = 0
    /\ imagePageNumber = 0
    /\ written = <<>>
    /\ curPage = [images |-> <<>>, header |-> FALSE, links |-> <<>>]
    /\ currentY = 0
    /\ pNo = 1
    /\ pos = 1
    /\ messages = <<>>

\* No loop over the instruments
LoopIdle ==
    /\ world = <<>>
    /\ disk = {}
    /\ runs = <<>>
    /\ loopPos = 0

\* No call of groupImagesIntoPages of its own
PackIdle ==
    /\ args = [images |-> <<>>, contentHeight |-> 0, scale |-> 0, imageGap |-> 0, den |-> 1]
    /\ packPc = "idle"
    /\ bfdQueue = <<>>
    /\ bfdPages = <<>>
    /\ rest = <<>>
    /\ dpPages = <<>>
    /\ iterations = 0
    /\ best = <<>>

----------------------------------------------------------------------------
\* Specification SpecPack: one call of groupImagesIntoPages, its two packings
\* built step by step

PackConfigs ==
    { [den |-> 1, contentHeight |-> 7, imageGap |-> 1, scale |-> 1, heights |-> {1, 2, 3}],
      [den |-> 1, contentHeight |-> 9, imageGap |-> 1, scale |-> 1, heights |-> {1, 2, 3}],
      [den |-> 1, contentHeight |-> 12, imageGap |-> 1, scale |-> 1, heights |-> {1, 2, 4, 8}],
      [den |-> 2, contentHeight |-> 8, imageGap |-> 1, scale |-> 3, heights |-> {1, 2, 3}],
      [den |-> 1, contentHeight |-> 700, imageGap |-> 40, scale |-> 100, heights |-> {1, 2, 3}],
      \* heights of 0.5 and 7.5 on pages of 7.5 with a gap of 1: the tallest is
      \* not oversized, yet its weight 9 is above capW = 8
      [den |-> 2, contentHeight |-> 15, imageGap |-> 2, scale |-> 1, heights |-> {1, 15}],
      \* parameters a layout must not have: no gap, a negative gap, a negative height
      [den |-> 1, contentHeight |-> 7, imageGap |-> 0, scale |-> 1, heights |-> {2, 3}],
      [den |-> 1, contentHeight |-> 7, imageGap |-> -1, scale |-> 1, heights |-> {2, 3}],
      [den |-> 1, contentHeight |-> -1, imageGap |-> 1, scale |-> 1, heights |-> {1, 2}] }

PackImages(heights) ==
    UNION {[1 .. n -> heights] : n \in 0 .. MaxItems}

packImage(i, h) == [filename |-> <<ToString(i)>>, width |-> 1, height |-> h]

items == makeItems(args.images, args.scale)

PackInit ==
    /\ \E c \in PackConfigs : \E hs \in PackImages(c.heights) :
          args = [images |-> [i \in DOMAIN hs |-> packImage(i, hs[i])],
                  contentHeight |-> c.contentHeight, scale |-> c.scale,
                  imageGap |-> c.imageGap, den |-> c.den]
    /\ packPc = "bfd"
    /\ bfdQueue = sortTallestFirst(items)
    /\ bfdPages = <<>>
    /\ rest = <<>>
    /\ dpPages = <<>>
    /\ iterations = 0
    /\ best = <<>>
    /\ RunIdle
    /\ LoopIdle
    /\ TitleIdle

\* packWithBFD: one iteration of `for (const it of sorted)`
BFDStep ==
    /\ packPc = "bfd"
    /\ bfdQueue # <<>>
    /\ bfdPages' = bfdPlace(bfdPages, Head(bfdQueue), args.contentHeight, args.imageGap)
    /\ bfdQueue' = Tail(bfdQueue)
    /\ UNCHANGED <<args, packPc, rest, dpPages, iterations, best, runVars, loopVars, titleVars>>

\* packWithBFD returns; packWithKnapsack sets the oversized items apart
KnapsackStart ==
    /\ packPc = "bfd"
    /\ bfdQueue = <<>>
    /\ packPc' = "knapsack"
    /\ LET oversized == knapsackOversized(items, args.contentHeight)
       IN  dpPages' = [k \in DOMAIN oversized |-> <<oversized[k]>>]
    /\ rest' = knapsackRest(items, args.contentHeight)
    /\ UNCHANGED <<args, bfdQueue, bfdPages, iterations, best, runVars, loopVars, titleVars>>

\* packWithKnapsack: one iteration of `while (rest.length > 0)`
KnapsackIteration ==
    /\ packPc = "knapsack"
    /\ rest # <<>>
    /\ \E chosenIdxs \in {knapsackChoose(rest, args.contentHeight, args.imageGap, args.den)} :
          /\ dpPages' = Append(dpPages, knapsackPageItems(rest, chosenIdxs))
          /\ rest' = knapsackNewRest(rest, chosenIdxs)
    /\ iterations' = iterations + 1
    /\ UNCHANGED <<args, packPc, bfdQueue, bfdPages, best, runVars, loopVars, titleVars>>

\* packWithKnapsack returns; score both packings and return the better
SelectBest ==
    /\ packPc = "knapsack"
    /\ rest = <<>>
    /\ packPc' = "done"
    /\ \E sB \in {score(bfdItems(bfdPages), args.contentHeight, args.imageGap)},
          sD \in {score(dpPages, args.contentHeight, args.imageGap)} :
          best' = stripHelpers(pickBest(sB, sD).pages)
    /\ UNCHANGED <<args, bfdQueue, bfdPages, rest, dpPages, iterations, runVars, loopVars, titleVars>>

PackNext == BFDStep \/ KnapsackStart \/ KnapsackIteration \/ SelectBest

vars == <<packVars, runVars, loopVars, titleVars>>

SpecPack == PackInit /\ [][PackNext]_vars

\* The call is synchronous code that runs to completion: a step that can be
\* taken is taken
PackInitFair == PackInit /\ Len(args.images) <= MaxFairItems

SpecPackFair == PackInitFair /\ [][PackNext]_vars /\ WF_vars(PackNext)

\* The stepwise run returns what the function returns
PackAgrees ==
    packPc = "done" =>
        best = groupImagesIntoPages(args.images, args.contentHeight, args.scale,
                                    args.imageGap, args.den)

----------------------------------------------------------------------------
\* Properties of groupImagesIntoPages (checked under SpecPack)

pagesBFD == stripHelpers(bfdItems(bfdPages))

pagesDP == stripHelpers(dpPages)

\* Height a page of images takes: scaled heights plus a gap between neighbours
UsedHeight(page) ==
    SumSeq([k \in DOMAIN page |-> page[k].height * args.scale])
        + args.imageGap * (Len(page) - 1)

IsOversizedAlone(page) ==
    Len(page) = 1 /\ page[1].height * args.scale > args.contentHeight

PagesRespectCapacity(pages) ==
    \A p \in DOMAIN pages :
        UsedHeight(pages[p]) <= args.contentHeight \/ IsOversizedAlone(pages[p])

TotalSlack(pages) ==
    SumSeq([p \in DOMAIN pages |-> Max(0, args.contentHeight - UsedHeight(pages[p]))])

\* C1: every page of the returned packing, and of the BFD and the knapsack
\* packing it is selected from, has sum(scaled heights) + gap * (items - 1)
\* <= contentHeight, unless it holds exactly one item taller than contentHeight.
C1_PagesWithinContentHeight ==
    packPc = "done" =>
        /\ PagesRespectCapacity(best)
        /\ PagesRespectCapacity(pagesBFD)
        /\ PagesRespectCapacity(pagesDP)

\* A finished call with a page of several images and a page of one oversized image
C1_Witness ==
    /\ packPc = "done"
    /\ \E p \in DOMAIN best : Len(best[p]) >= 2
    /\ \E p \in DOMAIN best : IsOversizedAlone(best[p])

\* C8: the result is the BFD or the knapsack packing: the one with strictly
\* fewer pages, on equal page counts the one with less total slack, and the
\* knapsack packing when the slack is equal too; so it has no more pages
\* than BFD alone and no more pages than there are items.
C8_SelectionRule ==
    packPc = "done" =>
        LET cB == Len(pagesBFD)
            cD == Len(pagesDP)
            sB == TotalSlack(pagesBFD)
            sD == TotalSlack(pagesDP)
        IN  /\ best \in {pagesBFD, pagesDP}
            /\ cD < cB => best = pagesDP
            /\ cB < cD => best = pagesBFD
            /\ (cD = cB /\ sD < sB) => best = pagesDP
            /\ (cD = cB /\ sB < sD) => best = pagesBFD
            /\ (cD = cB /\ sD = sB) => best = pagesDP
            /\ Len(best) <= cB
            /\ Len(best) <= Len(args.images)

\* A finished call whose two packings differ and tie on pages and slack
C8_Witness ==
    /\ packPc = "done"
    /\ pagesBFD # pagesDP
    /\ Len(pagesBFD) = Len(pagesDP)
    /\ TotalSlack(pagesBFD) = TotalSlack(pagesDP)
    /\ best = pagesDP

\* The fewest pages any grouping of the images needs when every page respects
\* the capacity: the image of least index goes on a page with some set of
\* other images, and the others are grouped in the fewest pages.
RECURSIVE MinPages(_)
MinPages(idxs) ==
    IF idxs = {} THEN 0
    ELSE LET first == CHOOSE i \in idxs : \A j \in idxs : i <= j
             asPage(S) == [k \in 1 .. Cardinality(S) |->
                             args.images[CHOOSE i \in S :
                                 Cardinality({j \in S : j < i}) = k - 1]]
             feasible == {S \in SUBSET idxs :
                             /\ first \in S
                             /\ \/ UsedHeight(asPage(S)) <= args.contentHeight
                                \/ Cardinality(S) = 1}
             counts == {1 + MinPages(idxs \ S) : S \in feasible}
         IN  CHOOSE c \in counts : \A d \in counts : c <= d

\* C9 as stated: the page count of the result is the least over all groupings
\* that respect the page capacity.
C9_PageCountIsMinimum ==
    packPc = "done" => Len(best) = MinPages(DOMAIN args.images)

IsSpecExample ==
    /\ args.contentHeight = 700 * args.den
    /\ args.imageGap = 40 * args.den
    /\ [i \in DOMAIN args.images |-> args.images[i].height * args.scale]
           = [i \in 1 .. 4 |-> 300 * args.den]

\* C9 amended: the page count of the result is the lesser of the page counts
\* of the BFD and the knapsack packing (which can exceed the least over all
\* groupings); scaled heights [300,300,300,300] with contentHeight 700 and
\* gap 40 give exactly 2 pages of two items each.
C9_PageCountIsBestOfTwo ==
    packPc = "done" =>
        /\ Len(best) <= Len(pagesBFD)
        /\ Len(best) <= Len(pagesDP)
        /\ Len(best) \in {Len(pagesBFD), Len(pagesDP)}
        /\ IsSpecExample => (Len(best) = 2 /\ \A p \in DOMAIN best : Len(best[p]) = 2)

\* The finished call of the worked example
C9_Witness == packPc = "done" /\ IsSpecExample

invalidParameters == args.contentHeight < 0 \/ args.imageGap <= 0

\* C16 as stated: a call with a negative contentHeight or with a gap that is
\* not positive ends in an error: it never returns a packing.
C16_InvalidParametersAreRejected ==
    invalidParameters => packPc # "done"

----------------------------------------------------------------------------
\* combinePDFs: names, titles and the baseline file
\*
\* A file name, a title and a line of the baseline file are sequences of
\* tokens: single characters, and as one token each the instrument's file
\* name ("Flute"), the extension (".png") and the link suffix ("_link").

instruments ==
    << [file |-> "Flute", title |-> "C"],
       [file |-> "Clarinet_in_Bb", title |-> "Bb"] >>

Digits == <<"0", "1", "2", "3", "4", "5", "6", "7", "8", "9">>

IsDigit(c) == c \in Range(Digits)

DigitValue(c) == (CHOOSE i \in DOMAIN Digits : Digits[i] = c) - 1

DropLast(s) == SubSeq(s, 1, Len(s) - 1)

\* .replace(/\.png$/i, "")
stripPng(name) ==
    IF name # <<>> /\ name[Len(name)] \in {".png", ".PNG"} THEN DropLast(name) ELSE name

\* Length of the run of digits that ends s
RECURSIVE trailingDigits(_)
trailingDigits(s) ==
    IF s # <<>> /\ IsDigit(s[Len(s)]) THEN 1 + trailingDigits(DropLast(s)) ELSE 0

\* .replace(new RegExp(`-${escapeRegExp(instrument.file)}-\\d+$`, "i"), "")
stripInstrument(name, instr) ==
    LET d == trailingDigits(name)
        n == Len(name) - d
    IN  IF d >= 1 /\ n >= 3 /\ name[n] = "-" /\ name[n - 1] = instr.file /\ name[n - 2] = "-"
        THEN SubSeq(name, 1, n - 3)
        ELSE name

titleOf(filename, instr) == stripInstrument(stripPng(filename), instr)

\* file.includes(instrument.file)
includesInstrument(name, instr) == \E i \in DOMAIN name : name[i] = instr.file

\* path.join("trimmed", `${tuneBaseName}_link`), as a name of the directory
linkFileName(title) == Append(title, "_link")

\* -- String.prototype.localeCompare(b, undefined, {numeric: true, sensitivity: "base"})

\* Letters that differ only in case are the same at sensitivity "base"
baseChar(c) ==
    CASE c = "T" -> "t"
      [] c = "U" -> "u"
      [] c = "N" -> "n"
      [] c = "E" -> "e"
      [] OTHER -> c

\* The collation order of the characters of the titles: white space, then
\* punctuation, then digits, then letters
CollationOrder == <<" ", "_", "-", "0", "1", "2", "3", "4", "5", "6", "7", "8", "9",
                    "e", "n", "t", "u">>

charRank(c) == CHOOSE i \in DOMAIN CollationOrder : CollationOrder[i] = baseChar(c)

\* Length of the run of digits that starts s
RECURSIVE leadingDigits(_)
leadingDigits(s) ==
    IF s # <<>> /\ IsDigit(Head(s)) THEN 1 + leadingDigits(Tail(s)) ELSE 0

RECURSIVE numberValue(_)
numberValue(ds) ==
    IF ds = <<>> THEN 0 ELSE 10 * numberValue(DropLast(ds)) + DigitValue(ds[Len(ds)])

Sign(n) == IF n < 0 THEN -1 ELSE IF n > 0 THEN 1 ELSE 0

\* -1, 0 or 1: a run of digits compares by its value, a character by its
\* collation rank without case, and a proper prefix comes first.
RECURSIVE localeCompare(_, _)
localeCompare(a, b) ==
    IF a = <<>> \/ b = <<>> THEN Sign(Len(a) - Len(b))
    ELSE IF IsDigit(Head(a)) /\ IsDigit(Head(b))
    THEN LET da == leadingDigits(a)
             db == leadingDigits(b)
             c == Sign(numberValue(SubSeq(a, 1, da)) - numberValue(SubSeq(b, 1, db)))
         IN  IF c # 0 THEN c
             ELSE localeCompare(SubSeq(a, da + 1, Len(a)), SubSeq(b, db + 1, Len(b)))
    ELSE LET c == Sign(charRank(Head(a)) - charRank(Head(b)))
         IN  IF c # 0 THEN c ELSE localeCompare(Tail(a), Tail(b))

\* Mutant: the entries are ordered by page
compareEntriesByPage(a, b) == Sign(a.page - b.page)

\* comparator of indexEntries.slice().sort(...)
compareEntries(a, b) == localeCompare(a.title, b.title)

\* Array.prototype.sort is stable: an entry's place is the number of entries
\* that compare before it, or compare equal and precede it.
titleRank(s, i) ==
    Cardinality({j \in DOMAIN s :
        \/ compareEntries(s[j], s[i]) < 0
        \/ (compareEntries(s[j], s[i]) = 0 /\ j < i)}) + 1

sortByTitle(s) ==
    LET ranked == {<<titleRank(s, i), i>> : i \in DOMAIN s}
    IN  [n \in DOMAIN s |-> s[(CHOOSE r \in ranked : r[1] = n)[2]]]

\* -- the baseline file

IsSpace(c) == c \in {" ", "\t"}

\* String.prototype.trim
RECURSIVE trim(_)
trim(s) ==
    IF s # <<>> /\ IsSpace(Head(s)) THEN trim(Tail(s))
    ELSE IF s # <<>> /\ IsSpace(s[Len(s)]) THEN trim(DropLast(s))
    ELSE s

\* Mutant: the directory part of a baseline line is kept
basenameWholePath(s) == s

\* path.basename: what follows the last separator, trailing separators ignored
RECURSIVE basename(_)
basename(s) ==
    IF s # <<>> /\ s[Len(s)] = "/" THEN basename(DropLast(s))
    ELSE IF \E i \in DOMAIN s : s[i] = "/"
    THEN LET last == CHOOSE i \in DOMAIN s : s[i] = "/" /\ \A j \in DOMAIN s : s[j] = "/" => j <= i
         IN  SubSeq(s, last + 1, Len(s))
    ELSE s

\* baselineContent.split("\n").filter((line) => line.trim()).map((line) => line.trim())
baselinePaths(lines) ==
    LET trimmedLines == [i \in DOMAIN lines |-> trim(lines[i])]
    IN  SelectSeq(trimmedLines, LAMBDA line : line # <<>>)

\* new Set(baselineImagePaths.map((filepath) => path.basename(filepath)))
baselineNames(lines) == {basename(l) : l \in Range(baselinePaths(lines))}

----------------------------------------------------------------------------
\* combinePDFs: page geometry.  pageWidth and pageHeight are in hundredths
\* of a point, the other constants in points; with den = 100 * maxWidthPx
\* every length of a run is a whole number of 1/den points.

pageWidth == 59528

pageHeight == 84189

marginTop == 36

marginBottom == 30

marginLeft == 40

marginRight == 40

imageGap == 40

lineHeight == 24

lineSize == 12

indexGap == 6

titleGap == 30

headerSpace == 40

linkSpace == 20

contentWidth == pageWidth - 100 * (marginLeft + marginRight)

contentHeight == pageHeight - 100 * (marginTop + marginBottom)

den == 100 * maxWidthPx

\* x points, and c hundredths of a point, as multiples of 1/den
Pt(x) == x * 100 * maxWidthPx

Cpt(c) == c * maxWidthPx

\* scale = contentWidth / maxWidthPx, so scale * den is contentWidth in hundredths
scale == contentWidth

\* pageHeight - margin.top
topY == Cpt(pageHeight) - Pt(marginTop)

\* Mutant: the appendix pages come first
allPagesAppendixFirst == appendixPages \o originalPages

allPages == originalPages \o appendixPages

----------------------------------------------------------------------------
\* What a run may find on disk

FileTune10 == <<"T", "u", "n", "e", " ", "1", "0", "-", "Flute", "-", "1", ".png">>

FileTune2 == <<"T", "u", "n", "e", " ", "2", "-", "Flute", "-", "1", ".png">>

FileTune2b == <<"T", "u", "n", "e", " ", "2", "-", "Flute", "-", "2", ".png">>

FileTune1 == <<"t", "u", "n", "e", " ", "1", "-", "Flute", "-", "1", ".PNG">>

FileClarinet == <<"T", "u", "n", "e", " ", "2", "-", "Clarinet_in_Bb", "-", "1", ".png">>

FileLink == <<"T", "u", "n", "e", " ", "2", "_link">>

DirectoryPool == <<FileTune10, FileTune2, FileTune2b, FileTune1, FileClarinet, FileLink>>

\* The listings of "trimmed": the pool's files, any MaxFiles of them at most
Directories ==
    {Without(DirectoryPool, DOMAIN DirectoryPool \ S, 1) :
        S \in {T \in SUBSET DOMAIN DirectoryPool : Cardinality(T) <= MaxFiles}}

\* What imageSize(buffer) returns; Unreadable stands for its throwing
ImageSizes ==
    { [width |-> 2, height |-> 1], [width |-> 2, height |-> 2],
      [width |-> 3, height |-> 1], [width |-> 3, height |-> 5] }

Unreadable == [width |-> 0, height |-> 0]

InTrimmed(name) == <<"trimmed", "/">> \o name

\* -- create_baseline.sh

\* Mutant: only the first part of a tune matches (the pattern of batch_trim.sh)
globMatchesFirstPart(name, instr) ==
    /\ includesInstrument(name, instr)
    /\ name[Len(name)] = ".png"
    /\ name[Len(name) - 1] = "1"

\* The pattern trimmed/*Flute*.png (trimmed/*Clarinet_in_Bb*.png): the name
\* holds the instrument's file name and ends in ".png", in this case
globMatches(name, instr) ==
    includesInstrument(name, instr) /\ name[Len(name)] = ".png"

\* The characters of the names and paths here, in the order of their bytes
ByteOrder == <<" ", "-", ".PNG", ".png", "/", "0", "1", "2", "3", "4", "5", "6", "7",
               "8", "9", "Clarinet_in_Bb", "Flute", "T", "_", "_link", "e", "n", "t",
               "trimmed", "u">>

byteRank(c) == CHOOSE i \in DOMAIN ByteOrder : ByteOrder[i] = c

\* The line a comes before the line b in the output of sort
RECURSIVE sortsBefore(_, _)
sortsBefore(a, b) ==
    IF a = <<>> THEN b # <<>>
    ELSE IF b = <<>> THEN FALSE
    ELSE IF Head(a) = Head(b) THEN sortsBefore(Tail(a), Tail(b))
    ELSE byteRank(Head(a)) < byteRank(Head(b))

sortLines(lines) ==
    LET ranked == {<<Cardinality({j \in DOMAIN lines :
                        \/ sortsBefore(lines[j], lines[i])
                        \/ (lines[j] = lines[i] /\ j < i)}) + 1, i>> : i \in DOMAIN lines}
    IN  [k \in DOMAIN lines |-> lines[(CHOOSE r \in ranked : r[1] = k)[2]]]

\* ls trimmed/*Flute*.png 2>/dev/null | sort > baseline_flute.txt, as the
\* program reads the file back: its lines and the empty string that follows
\* the last newline (the only "line" when the pattern matches no file)
createBaseline(dir, instr) ==
    LET matching == SelectSeq(dir, LAMBDA f : globMatches(f, instr))
    IN  [exists |-> TRUE,
         lines |-> sortLines([i \in DOMAIN matching |-> InTrimmed(matching[i])])
                       \o << <<>> >>]

\* The instrument's baseline file: missing, empty, or some lines
Baselines ==
    { [exists |-> FALSE, lines |-> <<>>],
      [exists |-> TRUE, lines |-> << <<>> >>],
      [exists |-> TRUE,
       lines |-> << InTrimmed(FileTune10), <<>>, <<" ">> \o InTrimmed(FileTune2) \o <<" ">>,
                    InTrimmed(FileClarinet), <<" ", "\t">> >>],
      [exists |-> TRUE, lines |-> << FileTune1, <<"o", "l", "d", "/">> \o FileTune2b >>] }

----------------------------------------------------------------------------
\* Specification Spec: one run of combinePDFs(instrument)

\* console.error with its text and, when it is about a file, the file's path
errorMessage(text, about) == [text |-> text, about |-> about]

blankPage == [images |-> <<>>, header |-> FALSE, links |-> <<>>]

\* The page as pdfWriter.writePage gets it; number 0: no page number drawn
indexPageWritten(entries) ==
    [kind |-> "index", number |-> 0, images |-> <<>>, header |-> FALSE,
     lines |-> entries, links |-> <<>>, goTo |-> <<>>]

\* Mutant: the pages are numbered from 0
imagePageWrittenFromZero(pg, number, hasFont) ==
    [kind |-> "image", number |-> IF hasFont THEN number - 1 ELSE 0, images |-> pg.images,
     header |-> pg.header, lines |-> <<>>, links |-> pg.links, goTo |-> <<>>]

\* drawPageNumber(contentContext, imagePageNumber + 1), then writePage(page)
imagePageWritten(pg, number, hasFont) ==
    [kind |-> "image", number |-> IF hasFont THEN number ELSE 0, images |-> pg.images,
     header |-> pg.header, lines |-> <<>>, links |-> pg.links, goTo |-> <<>>]

Init ==
    /\ PackIdle
    /\ LoopIdle
    /\ TitleIdle
    /\ messages = <<>>
    /\ pc = "start"
    /\ instrument \in Range(instruments)
    /\ trimmed = <<>>
    /\ baseline = [exists |-> FALSE, lines |-> <<>>]
    /\ imageFiles = <<>>
    /\ validImages = <<>>
    /\ originalImages = <<>>
    /\ appendixImages = <<>>
    /\ hasAppendix = FALSE
    /\ font = FALSE
    /\ maxWidthPx = 1
    /\ originalPages = <<>>
    /\ appendixPages = <<>>
    /\ indexEntries = <<>>
    /\ sorted = <<>>
    /\ indexPages = <<>>
    /\ idxY = 0
    /\ pageIndex = 0
    /\ imagePageNumber = 0
    /\ written = <<>>
    /\ curPage = blankPage
    /\ currentY = 0
    /\ pNo = 1
    /\ pos = 1

\* lines 189-193: there is no directory "trimmed"
NoTrimmedDir ==
    /\ pc = "start"
    /\ messages' = Append(messages, errorMessage("'trimmed' directory not found", <<>>))
    /\ pc' = "done"
    /\ UNCHANGED <<instrument, trimmed, baseline, imageFiles, validImages,
                   originalImages, appendixImages, hasAppendix, font, maxWidthPx,
                   originalPages, appendixPages, indexEntries, sorted, indexPages,
                   idxY, pageIndex, imagePageNumber, written, curPage, currentY,
                   pNo, pos, packVars, loopVars, titleVars>>

\* lines 195-204: list the directory, keep the names that include instrument.file
ListImages ==
    /\ pc = "start"
    /\ \E dir \in Directories :
          /\ trimmed' = dir
          /\ imageFiles' = SelectSeq(dir, LAMBDA f : includesInstrument(f, instrument))
    /\ messages' = IF imageFiles' = <<>>
                    THEN Append(messages, errorMessage("No PNG files found", <<>>))
                    ELSE messages
    /\ pc' = IF imageFiles' = <<>> THEN "done" ELSE "analyze"
    /\ UNCHANGED <<instrument, baseline, validImages,
                   originalImages, appendixImages, hasAppendix, font, maxWidthPx,
                   originalPages, appendixPages, indexEntries, sorted, indexPages,
                   idxY, pageIndex, imagePageNumber, written, curPage, currentY,
                   pNo, pos, packVars, loopVars, titleVars>>

\* Mutant: the analysis stops at the first file that cannot be read
readableBeforeFailure(files, sizes) ==
    LET bad == {i \in DOMAIN files : sizes[i].width = 0}
        stop == IF bad = {} THEN Len(files) + 1
                ELSE CHOOSE i \in bad : \A j \in bad : i <= j
    IN  [i \in 1 .. (stop - 1) |->
            [path |-> <<"trimmed", "/">> \o files[i], filename |-> files[i],
             width |-> sizes[i].width, height |-> sizes[i].height]]

\* imageInfo.filter((info) => info !== null)
readable(files, sizes) ==
    LET imageInfo == [i \in DOMAIN files |->
            [path |-> InTrimmed(files[i]), filename |-> files[i],
             width |-> sizes[i].width, height |-> sizes[i].height]]
    IN  SelectSeq(imageInfo, LAMBDA info : info.width # Unreadable.width)

\* lines 217-219: console.error(`Error analyzing ${filePath}:`, error), per file
analysisErrors(files, sizes) ==
    LET failed == SelectSeq([i \in DOMAIN files |-> [file |-> files[i], size |-> sizes[i]]],
                            LAMBDA f : f.size.width = Unreadable.width)
    IN  [i \in DOMAIN failed |-> errorMessage("Error analyzing", InTrimmed(failed[i].file))]

\* lines 206-230: read every image's size, drop the files that cannot be read
AnalyzeImages ==
    /\ pc = "analyze"
    /\ \E sizes \in [DOMAIN imageFiles -> ImageSizes \cup {Unreadable}] :
          /\ validImages' = readable(imageFiles, sizes)
          /\ messages' = messages \o analysisErrors(imageFiles, sizes)
                \o (IF validImages' = <<>>
                    THEN <<errorMessage("No valid PNG files to render.", <<>>)>>
                    ELSE <<>>)
    /\ pc' = IF validImages' = <<>> THEN "done" ELSE "partition"
    /\ UNCHANGED <<instrument, trimmed, baseline, imageFiles,
                   originalImages, appendixImages, hasAppendix, font, maxWidthPx,
                   originalPages, appendixPages, indexEntries, sorted, indexPages,
                   idxY, pageIndex, imagePageNumber, written, curPage, currentY,
                   pNo, pos, packVars, loopVars, titleVars>>

inBaseline(images, names) == SelectSeq(images, LAMBDA img : img.filename \in names)

notInBaseline(images, names) == SelectSeq(images, LAMBDA img : img.filename \notin names)

\* Mutant: the images are looked up in the baseline although there is no file
appendixOfIgnoringExists(images, b) == notInBaseline(images, baselineNames(b.lines))

\* lines 236 and 256-258: originalImages
originalOf(images, b) ==
    IF b.exists THEN inBaseline(images, baselineNames(b.lines)) ELSE images

\* lines 237 and 260-262: appendixImages
appendixOf(images, b) ==
    IF b.exists THEN notInBaseline(images, baselineNames(b.lines)) ELSE <<>>

\* lines 232-275: split the images by the baseline file, when there is one:
\* a file someone wrote, or the file create_baseline.sh makes of the directory
PartitionBaseline ==
    /\ pc = "partition"
    /\ \E b \in Baselines \cup {createBaseline(trimmed, instrument)} :
          /\ baseline' = b
          /\ originalImages' = originalOf(validImages, b)
          /\ appendixImages' = appendixOf(validImages, b)
          /\ hasAppendix' = (b.exists /\ Len(appendixImages') > 0)
    /\ pc' = "font"
    /\ UNCHANGED <<instrument, trimmed, imageFiles, validImages, font, maxWidthPx,
                   originalPages, appendixPages, indexEntries, sorted, indexPages,
                   idxY, pageIndex, imagePageNumber, written, curPage, currentY,
                   pNo, pos, packVars, loopVars, titleVars, messages>>

\* lines 277-318: create the writer, try to load a font
LoadFont ==
    /\ pc = "font"
    /\ font' \in BOOLEAN
    /\ pageIndex' = 0
    /\ imagePageNumber' = 0
    /\ pc' = "pack"
    /\ UNCHANGED <<instrument, trimmed, baseline, imageFiles, validImages,
                   originalImages, appendixImages, hasAppendix, maxWidthPx,
                   originalPages, appendixPages, indexEntries, sorted, indexPages,
                   idxY, written, curPage, currentY, pNo, pos, packVars, loopVars, titleVars, messages>>

\* Mutant: the width of the first image, not of the widest
maxWidthOfFirst(images) == images[1].width

\* Math.max(...validImages.map((i) => i.width))
maxWidth(images) ==
    CHOOSE w \in {images[i].width : i \in DOMAIN images} :
        \A i \in DOMAIN images : images[i].width <= w

\* groupImagesIntoPages(images, contentHeight, scale, imageGap) with the scale
\* for the widest image being maxW pixels wide
pagesAtWidth(images, maxW) ==
    groupImagesIntoPages(images, contentHeight * maxW, scale, imageGap * 100 * maxW,
                         100 * maxW)

\* lines 365-390: one scale for all images, each section packed on its own
PackPages ==
    /\ pc = "pack"
    /\ maxWidthPx' = maxWidth(validImages)
    /\ originalPages' = pagesAtWidth(originalImages, maxWidthPx')
    /\ appendixPages' = IF hasAppendix THEN pagesAtWidth(appendixImages, maxWidthPx')
                        ELSE <<>>
    /\ pc' = "index"
    /\ UNCHANGED <<instrument, trimmed, baseline, imageFiles, validImages,
                   originalImages, appendixImages, hasAppendix, font,
                   indexEntries, sorted, indexPages, idxY, pageIndex,
                   imagePageNumber, written, curPage, currentY, pNo, pos, packVars, loopVars, titleVars, messages>>

\* originalPages.flatMap((items, pIdx) => items.map((img) => ({title, page, pageIndex,
\* section}))): the entries of one section, pages numbered after `offset` pages.
\* The field file is not in the source: it records the image an entry stands for.
sectionEntries(pages, offset, section, instr) ==
    Flatten([pIdx \in DOMAIN pages |->
        [i \in DOMAIN pages[pIdx] |->
            [title |-> titleOf(pages[pIdx][i].filename, instr),
             page |-> offset + (pIdx - 1) + 1,
             pageIndex |-> offset + (pIdx - 1),
             section |-> section,
             file |-> pages[pIdx][i].filename]]])

originalEntries(pages, instr) == sectionEntries(pages, 0, "original", instr)

\* Mutant: the appendix has no index entries
appendixEntriesNone(pages, offset, instr) == <<>>

\* Mutant: the appendix pages are numbered from 1 again
appendixEntriesNoOffset(pages, offset, instr) == sectionEntries(pages, 0, "appendix", instr)

appendixEntries(pages, offset, instr) == sectionEntries(pages, offset, "appendix", instr)

\* lines 398-469: with a font, collect and sort the index entries and start
\* the first index page with its title
BuildIndex ==
    /\ pc = "index"
    /\ font /\ Len(validImages) > 0
    /\ indexEntries' =
          originalEntries(originalPages, instrument)
              \o (IF hasAppendix
                  THEN appendixEntries(appendixPages, Len(originalPages), instrument)
                  ELSE <<>>)
    /\ sorted' = sortByTitle(indexEntries')
    /\ indexPages' = << <<>> >>
    /\ idxY' = topY - Pt(titleGap)
    /\ pos' = 1
    /\ pc' = "indexLine"
    /\ UNCHANGED <<instrument, trimmed, baseline, imageFiles, validImages,
                   originalImages, appendixImages, hasAppendix, font, maxWidthPx,
                   originalPages, appendixPages, pageIndex, imagePageNumber,
                   written, curPage, currentY, pNo, packVars, loopVars, titleVars, messages>>

\* line 399: without a font there is no index
SkipIndex ==
    /\ pc = "index"
    /\ ~(font /\ Len(validImages) > 0)
    /\ pc' = "images"
    /\ UNCHANGED <<instrument, trimmed, baseline, imageFiles, validImages,
                   originalImages, appendixImages, hasAppendix, font, maxWidthPx,
                   originalPages, appendixPages, indexEntries, sorted, indexPages,
                   idxY, pageIndex, imagePageNumber, written, curPage, currentY,
                   pNo, pos, packVars, loopVars, titleVars, messages>>

\* Mutant: a line is drawn as long as it starts above the bottom margin
needsNewIndexPageAtMargin(y) == y < Pt(marginBottom)

\* line 481: if (y < margin.bottom + lineHeight)
needsNewIndexPage(y) == y < Pt(marginBottom) + Pt(lineHeight)

\* lines 480-596: one iteration of `for (const item of sorted)`
IndexLine ==
    /\ pc = "indexLine"
    /\ pos <= Len(sorted)
    /\ LET item == sorted[pos]
           newPage == needsNewIndexPage(idxY)
           lineY == IF newPage THEN topY ELSE idxY
       IN  /\ IF newPage
              THEN /\ written' = Append(written,
                                        indexPageWritten(indexPages[Len(indexPages)]))
                   /\ pageIndex' = pageIndex + 1
                   /\ indexPages' = Append(indexPages, <<item>>)
              ELSE /\ indexPages' = [indexPages EXCEPT ![Len(indexPages)] = Append(@, item)]
                   /\ UNCHANGED <<written, pageIndex>>
           /\ idxY' = lineY - Pt(lineHeight)
    /\ pos' = pos + 1
    /\ UNCHANGED <<pc, instrument, trimmed, baseline, imageFiles, validImages,
                   originalImages, appendixImages, hasAppendix, font, maxWidthPx,
                   originalPages, appendixPages, indexEntries, sorted,
                   imagePageNumber, curPage, currentY, pNo, packVars, loopVars, titleVars, messages>>

\* lines 598-606: write the last index page
FinishIndex ==
    /\ pc = "indexLine"
    /\ pos > Len(sorted)
    /\ written' = Append(written, indexPageWritten(indexPages[Len(indexPages)]))
    /\ pageIndex' = pageIndex + 1
    /\ pc' = "images"
    /\ UNCHANGED <<instrument, trimmed, baseline, imageFiles, validImages,
                   originalImages, appendixImages, hasAppendix, font, maxWidthPx,
                   originalPages, appendixPages, indexEntries, sorted, indexPages,
                   idxY, imagePageNumber, curPage, currentY, pNo, pos, packVars, loopVars, titleVars, messages>>

\* lines 608-614: start the first image page
StartImagePages ==
    /\ pc = "images"
    /\ curPage' = blankPage
    /\ currentY' = topY
    /\ pNo' = 1
    /\ pc' = "group"
    /\ UNCHANGED <<instrument, trimmed, baseline, imageFiles, validImages,
                   originalImages, appendixImages, hasAppendix, font, maxWidthPx,
                   originalPages, appendixPages, indexEntries, sorted, indexPages,
                   idxY, pageIndex, imagePageNumber, written, pos, packVars, loopVars, titleVars, messages>>

\* const isAppendixStart = hasAppendix && p === originalPages.length
isAppendixStart == hasAppendix /\ pNo - 1 = Len(originalPages)

\* lines 617-648: the head of one iteration of the page loop: for p > 0 write
\* the previous page and start a new one; draw the header of the appendix
StartGroup ==
    /\ pc = "group"
    /\ pNo <= Len(allPages)
    /\ IF pNo > 1
       THEN /\ written' = Append(written,
                                 imagePageWritten(curPage, imagePageNumber + 1, font))
            /\ imagePageNumber' = imagePageNumber + 1
            /\ pageIndex' = pageIndex + 1
       ELSE UNCHANGED <<written, imagePageNumber, pageIndex>>
    /\ LET fresh == IF pNo > 1 THEN blankPage ELSE curPage
           freshY == IF pNo > 1 THEN topY ELSE currentY
       IN  IF isAppendixStart /\ font
           THEN /\ curPage' = [fresh EXCEPT !.header = TRUE]
                /\ currentY' = topY - Pt(headerSpace)
           ELSE /\ curPage' = fresh
                /\ currentY' = freshY
    /\ pos' = 1
    /\ pc' = "draw"
    /\ UNCHANGED <<instrument, trimmed, baseline, imageFiles, validImages,
                   originalImages, appendixImages, hasAppendix, font, maxWidthPx,
                   originalPages, appendixPages, indexEntries, sorted, indexPages,
                   idxY, pNo, packVars, loopVars, titleVars, messages>>

\* fs.existsSync(linkFilePath) with a link in the file, and a font to write it
hasLink(img) == font /\ linkFileName(titleOf(img.filename, instrument)) \in Range(trimmed)

\* Mutant: no image is moved to a new page
needsSpillNever(y, hPts) == FALSE

\* if (currentY - hPts < margin.bottom)
needsSpill(y, hPts) == y - hPts < Pt(marginBottom)

\* lines 650-769: one iteration of `for (const img of allPages[p])`: spill to
\* a new page when the image does not fit, draw it, leave room for its link
DrawImage ==
    /\ pc = "draw"
    /\ LET img == allPages[pNo][pos]
           hPts == img.height * scale
           spill == needsSpill(currentY, hPts)
           onPage == IF spill THEN blankPage ELSE curPage
           startY == IF spill THEN topY ELSE currentY
           linkSpacing == IF hasLink(img) THEN Pt(linkSpace) ELSE 0
           wPts == img.width * scale
           drawn == [filename |-> img.filename, y |-> startY - hPts,
                     width |-> wPts, height |-> hPts]
       IN  /\ IF spill
              THEN /\ written' = Append(written,
                                        imagePageWritten(curPage, imagePageNumber + 1, font))
                   /\ imagePageNumber' = imagePageNumber + 1
                   /\ pageIndex' = pageIndex + 1
              ELSE UNCHANGED <<written, imagePageNumber, pageIndex>>
           /\ curPage' = [onPage EXCEPT
                             !.images = Append(@, drawn),
                             !.links = IF hasLink(img) THEN Append(@, img.filename) ELSE @]
           /\ currentY' = startY - (hPts + Pt(imageGap) + linkSpacing)
    /\ IF pos = Len(allPages[pNo])
       THEN pNo' = pNo + 1 /\ pos' = 1 /\ pc' = "group"
       ELSE pos' = pos + 1 /\ UNCHANGED <<pNo, pc>>
    /\ UNCHANGED <<instrument, trimmed, baseline, imageFiles, validImages,
                   originalImages, appendixImages, hasAppendix, font, maxWidthPx,
                   originalPages, appendixPages, indexEntries, sorted, indexPages,
                   idxY, packVars, loopVars, titleVars, messages>>

\* lines 772-779: write the last image page
FinalizeLastPage ==
    /\ pc = "group"
    /\ pNo > Len(allPages)
    /\ written' = Append(written, imagePageWritten(curPage, imagePageNumber + 1, font))
    /\ imagePageNumber' = imagePageNumber + 1
    /\ pageIndex' = pageIndex + 1
    /\ pc' = "links"
    /\ UNCHANGED <<instrument, trimmed, baseline, imageFiles, validImages,
                   originalImages, appendixImages, hasAppendix, font, maxWidthPx,
                   originalPages, appendixPages, indexEntries, sorted, indexPages,
                   idxY, curPage, currentY, pNo, pos, packVars, loopVars, titleVars, messages>>

\* lines 799-804: the GoTo links of one index page, one per line whose target
\* page exists; pages are counted from 0 as in pdfDoc.getPages()
goToLinks(lines, indexPageCount, pageCount) ==
    LET links == [n \in DOMAIN lines |->
                     [file |-> lines[n].file,
                      target |-> indexPageCount + lines[n].pageIndex]]
    IN  SelectSeq(links, LAMBDA l : l.target < pageCount)

\* lines 781-917: end the writer; with a font and an index, reopen the file
\* and add the GoTo links to the index pages (the link annotations add no
\* page and move no image)
Finish ==
    /\ pc = "links"
    /\ written' =
          IF font /\ Len(indexPages) > 0
          THEN [i \in DOMAIN written |->
                   IF i <= Len(indexPages)
                   THEN [written[i] EXCEPT
                            !.goTo = goToLinks(written[i].lines, Len(indexPages), Len(written))]
                   ELSE written[i]]
          ELSE written
    /\ pc' = "done"
    /\ UNCHANGED <<instrument, trimmed, baseline, imageFiles, validImages,
                   originalImages, appendixImages, hasAppendix, font, maxWidthPx,
                   originalPages, appendixPages, indexEntries, sorted, indexPages,
                   idxY, pageIndex, imagePageNumber, curPage, currentY,
                   pNo, pos, packVars, loopVars, titleVars, messages>>

Next ==
    \/ NoTrimmedDir
    \/ ListImages
    \/ AnalyzeImages
    \/ PartitionBaseline
    \/ LoadFont
    \/ PackPages
    \/ BuildIndex
    \/ SkipIndex
    \/ IndexLine
    \/ FinishIndex
    \/ StartImagePages
    \/ StartGroup
    \/ DrawImage
    \/ FinalizeLastPage
    \/ Finish

Spec == Init /\ [][Next]_vars

----------------------------------------------------------------------------
\* Properties of a run of combinePDFs (checked under Spec)

Partitioned == pc \notin {"idle", "start", "analyze", "partition"} /\ validImages # <<>>

Packed == Partitioned /\ pc \notin {"font", "pack"}

IndexBuilt == Packed /\ font /\ pc # "index"

\* The entries on the index pages written so far, in the order written
writtenLines ==
    Flatten([i \in DOMAIN written |-> written[i].lines])

Filenames(images) == [i \in DOMAIN images |-> images[i].filename]

\* The image pages written that show the image of this file name
PagesShowing(file) ==
    {i \in DOMAIN written :
        written[i].kind = "image"
            /\ \E m \in DOMAIN written[i].images : written[i].images[m].filename = file}

HeaderDrawn ==
    curPage.header \/ \E i \in DOMAIN written : written[i].header

\* C2 as stated: when the index is rendered, the page number of every index
\* entry is the number printed on the page its image is drawn on.
C2_IndexNumberIsPrintedNumber ==
    (pc = "done" /\ font) =>
        \A n \in DOMAIN writtenLines : \A i \in PagesShowing(writtenLines[n].file) :
            written[i].number = writtenLines[n].page

\* C3 as stated: with a baseline, the original images are grouped into pages
\* as they are in the run on the same baseline whose catalog holds the
\* original images only.
C3_AppendixKeepsOriginalLayout ==
    (pc = "index" /\ baseline.exists /\ originalImages # <<>>) =>
        originalPages = pagesAtWidth(originalImages, maxWidth(originalImages))

\* C4: the index, when rendered, has exactly one entry per valid image of the
\* catalog, original and appendix together.
C4_OneEntryPerImage ==
    (pc = "done" /\ font) =>
        /\ Len(writtenLines) = Len(validImages)
        /\ \A i \in DOMAIN validImages :
              Cardinality({n \in DOMAIN writtenLines :
                  writtenLines[n].file = validImages[i].filename}) = 1
        /\ \A n \in DOMAIN writtenLines :
              writtenLines[n].title = titleOf(writtenLines[n].file, instrument)

\* A rendered index of both sections, one file of the directory unreadable
C4_Witness ==
    /\ pc = "done" /\ font
    /\ originalImages # <<>> /\ hasAppendix
    /\ Len(validImages) < Len(imageFiles)

\* The titles of the model in the order the claim gives: "tune 1" before
\* "Tune 2" before "Tune 10"
TitlesInOrder ==
    << <<"t", "u", "n", "e", " ", "1">>, <<"T", "u", "n", "e", " ", "2">>,
       <<"T", "u", "n", "e", " ", "1", "0">> >>

TitlePlace(title) == CHOOSE i \in DOMAIN TitlesInOrder : TitlesInOrder[i] = title

\* C5: the index entries are rendered in non-decreasing order of title, case
\* ignored and numbers by value, whatever their pages and sections.
C5_IndexSortedByTitle ==
    (pc = "done" /\ font) =>
        \A m, n \in DOMAIN writtenLines :
            m < n => TitlePlace(writtenLines[m].title) <= TitlePlace(writtenLines[n].title)

\* A rendered index of three titles from both sections that is not in page order
C5_Witness ==
    /\ pc = "done" /\ font
    /\ originalImages # <<>> /\ hasAppendix
    /\ Cardinality({writtenLines[n].title : n \in DOMAIN writtenLines}) = 3
    /\ \E m, n \in DOMAIN writtenLines : m < n /\ writtenLines[m].page > writtenLines[n].page

\* The line names the file: it ends with the file name, white space aside,
\* and the name starts the line or follows a separator
LineNames(line, name) ==
    \E i \in DOMAIN line : \E j \in i .. Len(line) :
        /\ SubSeq(line, i, j) = name
        /\ \A m \in (j + 1) .. Len(line) : IsSpace(line[m])
        /\ \/ \A m \in 1 .. (i - 1) : IsSpace(line[m])
           \/ line[i - 1] = "/"

InBaselineFile(name) == \E n \in DOMAIN baseline.lines : LineNames(baseline.lines[n], name)

IsSubsequence(sub, whole) ==
    sub = SelectSeq(whole, LAMBDA x : x \in Range(sub))

\* C6: with a baseline, originalImages and appendixImages are disjoint, hold
\* every valid image exactly once between them, keep catalog order, and an
\* image is original exactly when a baseline line names its file.
C6_BaselinePartition ==
    (Partitioned /\ baseline.exists) =>
        /\ Range(originalImages) \cap Range(appendixImages) = {}
        /\ Range(originalImages) \cup Range(appendixImages) = Range(validImages)
        /\ Len(originalImages) + Len(appendixImages) = Len(validImages)
        /\ IsSubsequence(originalImages, validImages)
        /\ IsSubsequence(appendixImages, validImages)
        /\ \A i \in DOMAIN validImages :
              validImages[i] \in Range(originalImages)
                  <=> InBaselineFile(validImages[i].filename)

\* A partition by a baseline with images on both sides
C6_Witness ==
    /\ Partitioned /\ baseline.exists
    /\ originalImages # <<>> /\ appendixImages # <<>>

\* C7 as stated: a baseline that is absent or names no file leaves every
\* image original, and no appendix and no header.
C7_AbsentOrEmptyBaseline ==
    (Partitioned /\ (~baseline.exists \/ baselineNames(baseline.lines) = {})) =>
        /\ originalImages = validImages
        /\ appendixImages = <<>>
        /\ ~HeaderDrawn

\* C7 amended: with no baseline file every image is original, there is no
\* appendix and no "New Tunes" header is drawn; a baseline file that exists
\* and names no file makes every image an appendix image.
C7_AbsentBaseline ==
    /\ (Partitioned /\ ~baseline.exists) =>
          /\ originalImages = validImages
          /\ appendixImages = <<>>
          /\ ~hasAppendix
          /\ ~HeaderDrawn
          /\ Packed => (appendixPages = <<>>)
    /\ (Partitioned /\ baseline.exists /\ \A n \in DOMAIN baseline.lines :
                                              \A m \in DOMAIN baseline.lines[n] :
                                                  IsSpace(baseline.lines[n][m])) =>
          /\ originalImages = <<>>
          /\ appendixImages = validImages

\* A finished run with a font, several images and no baseline file
C7_Witness ==
    /\ pc = "done" /\ font
    /\ ~baseline.exists
    /\ Len(validImages) >= 2

\* C10: an original entry on originalPages[i] has page i + 1 and pageIndex i,
\* an appendix entry on appendixPages[j] has page originalPages.length + j + 1
\* and pageIndex originalPages.length + j (i and j from 0); every entry has
\* page = pageIndex + 1.
C10_ContinuousPageNumbers ==
    IndexBuilt =>
        /\ Len(indexEntries) = Len(validImages)
        /\ \A n \in DOMAIN indexEntries :
              LET e == indexEntries[n]
              IN  /\ e.page = e.pageIndex + 1
                  /\ \A i \in DOMAIN originalPages :
                        e.file \in Range(Filenames(originalPages[i])) =>
                            e.section = "original" /\ e.pageIndex = i - 1
                  /\ \A j \in DOMAIN appendixPages :
                        e.file \in Range(Filenames(appendixPages[j])) =>
                            /\ e.section = "appendix"
                            /\ e.pageIndex = Len(originalPages) + (j - 1)
                  /\ e.file \in Range(Filenames(validImages))

\* An index with an appendix entry on the second page of the appendix, after
\* the original pages
C10_Witness ==
    /\ IndexBuilt
    /\ originalPages # <<>>
    /\ \E n \in DOMAIN indexEntries :
          indexEntries[n].section = "appendix"
              /\ indexEntries[n].page = Len(originalPages) + 2

\* The file names of the images drawn so far, in the order drawn
drawnFiles ==
    Flatten([i \in DOMAIN written |-> Filenames(written[i].images)])
        \o (IF pc \in {"group", "draw"} THEN Filenames(curPage.images) ELSE <<>>)

\* C11: the pages are written index pages first, then the pages of original
\* images, then the pages of appendix images: no index page follows an image
\* page and no original image is drawn after an appendix image.
C11_IndexThenOriginalThenAppendix ==
    /\ \A i, j \in DOMAIN written :
          (i < j /\ written[i].kind = "image") => written[j].kind = "image"
    /\ \A m, n \in DOMAIN drawnFiles :
          (m < n /\ drawnFiles[m] \in Range(Filenames(appendixImages)))
              => drawnFiles[n] \notin Range(Filenames(originalImages))

\* A finished booklet with an index page, original images and appendix images
C11_Witness ==
    /\ pc = "done"
    /\ \E i \in DOMAIN written : written[i].kind = "index"
    /\ \E n \in DOMAIN drawnFiles : drawnFiles[n] \in Range(Filenames(originalImages))
    /\ \E n \in DOMAIN drawnFiles : drawnFiles[n] \in Range(Filenames(appendixImages))

\* The images drawn so far, as given to drawImage
drawnImages ==
    Flatten([i \in DOMAIN written |-> written[i].images])
        \o (IF pc \in {"group", "draw"} THEN curPage.images ELSE <<>>)

ImageOfFile(file) == CHOOSE img \in Range(validImages) : img.filename = file

\* C12: one scale, contentWidth over the largest pixel width of all valid
\* images, original and appendix together, is used to pack and to draw every
\* image; the widest image is drawn contentWidth wide and none is drawn wider.
\* (Lengths are multiples of 1/den point, den = 100 * maxWidthPx.)
C12_OneScaleForTheBooklet ==
    Packed =>
        /\ \A i \in DOMAIN validImages : validImages[i].width <= maxWidthPx
        /\ \E i \in DOMAIN validImages : validImages[i].width = maxWidthPx
        /\ originalPages = pagesAtWidth(originalImages, maxWidthPx)
        /\ hasAppendix => appendixPages = pagesAtWidth(appendixImages, maxWidthPx)
        /\ \A n \in DOMAIN drawnImages :
              LET d == drawnImages[n]
                  img == ImageOfFile(d.filename)
              IN  /\ d.width * maxWidthPx = img.width * Cpt(contentWidth)
                  /\ d.height * maxWidthPx = img.height * Cpt(contentWidth)
                  /\ d.width <= Cpt(contentWidth)
                  /\ img.width = maxWidthPx => d.width = Cpt(contentWidth)
        /\ pc = "done" => \E n \in DOMAIN drawnImages : drawnImages[n].width = Cpt(contentWidth)

\* A finished booklet whose widest image is an appendix image, with a
\* narrower original image
C12_Witness ==
    /\ pc = "done"
    /\ \E a \in Range(appendixImages) : \E o \in Range(originalImages) :
          /\ a.width = maxWidthPx /\ o.width < maxWidthPx
          /\ \E m, n \in DOMAIN drawnImages :
                /\ drawnImages[m].filename = o.filename
                /\ drawnImages[n].filename = a.filename
                /\ drawnImages[m].width < drawnImages[n].width

----------------------------------------------------------------------------
\* Specification SpecIndex: the index of a run of combinePDFs("Flute") on a
\* directory of n square images, from the point where the pages are packed.
\* Two square images do not fit one page, so every image has a page of its own.

RECURSIVE decimal(_)
\* the decimal digits of k, as in a file name
decimal(k) == IF k < 10 THEN <<Digits[k + 1]>> ELSE Append(decimal(k \div 10), Digits[(k % 10) + 1])

\* The file of the k-th tune: "t<k>-Flute-1.png"
tuneFile(k) == <<"t">> \o decimal(k) \o <<"-", "Flute", "-", "1", ".png">>

squareImage(k) ==
    [path |-> InTrimmed(tuneFile(k)), filename |-> tuneFile(k), width |-> 2, height |-> 2]

squareImages(n) == [k \in 1 .. n |-> squareImage(k)]

IndexInit ==
    /\ PackIdle
    /\ LoopIdle
    /\ TitleIdle
    /\ messages = <<>>
    /\ pc = "index"
    /\ instrument = instruments[1]
    /\ \E n \in 1 .. MaxEntries :
          /\ trimmed = [k \in 1 .. n |-> tuneFile(k)]
          /\ imageFiles = trimmed
          /\ validImages = squareImages(n)
          /\ originalImages = validImages
          /\ originalPages = [k \in 1 .. n |-> <<squareImage(k)>>]
    /\ baseline = [exists |-> FALSE, lines |-> <<>>]
    /\ appendixImages = <<>>
    /\ hasAppendix = FALSE
    /\ font = TRUE
    /\ maxWidthPx = 2
    /\ appendixPages = <<>>
    /\ indexEntries = <<>>
    /\ sorted = <<>>
    /\ indexPages = <<>>
    /\ idxY = 0
    /\ pageIndex = 0
    /\ imagePageNumber = 0
    /\ written = <<>>
    /\ curPage = blankPage
    /\ currentY = 0
    /\ pNo = 1
    /\ pos = 1

IndexNext ==
    \/ BuildIndex
    \/ IndexLine
    \/ FinishIndex

SpecIndex == IndexInit /\ [][IndexNext]_vars

\* The numbers of lines of the index pages: those written, then the open one
linesPerIndexPage ==
    [i \in DOMAIN written |-> Len(written[i].lines)]
        \o (IF pc = "indexLine" THEN <<Len(indexPages[Len(indexPages)])>> ELSE <<>>)

\* The lines that fit below a first line at height top (in hundredths of a
\* point): a line is drawn while lineHeight is left above the bottom margin
linesFitting(top) == ((top - 100 * (marginBottom + lineHeight)) \div (100 * lineHeight)) + 1

linesOnFirstPage == linesFitting(pageHeight - 100 * (marginTop + titleGap))

linesOnLaterPage == linesFitting(pageHeight - 100 * marginTop)

allIndexLines ==
    writtenLines \o (IF pc = "indexLine" THEN indexPages[Len(indexPages)] ELSE <<>>)

----------------------------------------------------------------------------
\* More properties of a run of combinePDFs (checked under Spec)

\* C14 as stated: without a font the run ends with the same page groups and
\* still has the index entries, one per image, on index pages.
C14_IndexProducedWithoutFont ==
    (pc = "done" /\ ~font /\ validImages # <<>>) =>
        /\ originalPages = pagesAtWidth(originalImages, maxWidthPx)
        /\ Len(indexEntries) = Len(validImages)
        /\ Len(writtenLines) = Len(validImages)
        /\ \E i \in DOMAIN written : written[i].kind = "index"

Analyzed == pc \notin {"idle", "start", "analyze"} /\ imageFiles # <<>>

\* The files a message "Error analyzing <path>" was written about
reportedUnreadable ==
    {messages[n].about : n \in {k \in DOMAIN messages : messages[k].text = "Error analyzing"}}

\* C17: a file whose dimensions cannot be read is left out of the catalog
\* with an error message; every other matching file is in the catalog, in
\* directory order; and the run goes on to draw every image of the catalog.
C17_UnreadableImagesAreDropped ==
    Analyzed =>
        /\ \A i \in DOMAIN imageFiles :
              (imageFiles[i] \in Range(Filenames(validImages)))
                  <=> (InTrimmed(imageFiles[i]) \notin reportedUnreadable)
        /\ IsSubsequence(Filenames(validImages), imageFiles)
        /\ \A i \in DOMAIN validImages : validImages[i].width > 0 /\ validImages[i].height > 0
        /\ (validImages # <<>>) => pc # "done" \/ Range(drawnFiles) = Range(Filenames(validImages))
        /\ (validImages # <<>> /\ pc = "done") => Len(drawnFiles) = Len(validImages)

\* A finished booklet of two images from a directory whose second matching
\* file of three could not be read
C17_Witness ==
    /\ pc = "done"
    /\ Len(imageFiles) = 3 /\ Len(validImages) = 2
    /\ InTrimmed(imageFiles[2]) \in reportedUnreadable
    /\ Len(drawnFiles) = 2

----------------------------------------------------------------------------
\* Specification SpecLoop: the loop over `instruments` at the end of main.js.
\* Every call of combinePDFs runs without interruption up to its first await
\* (line 790, reached only with a font and an index) and from one await to
\* the next; the loop has called every instrument before a call is resumed
\* or a rejection is handled; the calls share the disk.

\* instrument.file.toLowerCase()
toLowerCase(t) ==
    CASE t = "Flute" -> "flute"
      [] t = "Clarinet_in_Bb" -> "clarinet_in_bb"
      [] OTHER -> t

\* .replace("_in_bb", "")
withoutInBb(t) ==
    CASE t = "clarinet_in_bb" -> "clarinet"
      [] OTHER -> t

\* line 233: `baseline_${instrument.file.toLowerCase().replace("_in_bb", "")}.txt`
baselineFile(instr) == <<"baseline_", withoutInBb(toLowerCase(instr.file)), ".txt">>

\* Mutant: one output file for all instruments
outputPathShared(instr) == <<"booklets", "/", "booklet", ".pdf">>

\* line 278: `booklets/${instrument.file}.pdf`
outputPath(instr) == <<"booklets", "/", instr.file, ".pdf">>

\* The pixel sizes of the pool's images
sizeOfFile(file) ==
    CASE file = FileTune10 -> [width |-> 3, height |-> 1]
      [] file = FileTune2 -> [width |-> 2, height |-> 2]
      [] file = FileTune1 -> [width |-> 2, height |-> 2]
      [] OTHER -> [width |-> 2, height |-> 1]

FluteBaseline ==
    [path |-> baselineFile(instruments[1]),
     lines |-> << InTrimmed(FileTune10), <<>>, InTrimmed(FileClarinet) >>]

ClarinetBaseline ==
    [path |-> baselineFile(instruments[2]), lines |-> << InTrimmed(FileTune2) >>]

\* What the program may find: the directory and its unreadable files, the
\* baseline files, a font or none, and the instruments whose call throws,
\* before the writer is created (early) or while it draws (late)
Worlds ==
    [hasTrimmed : {TRUE}, trimmed : Directories,
     corrupt : {{}, {FileClarinet}, {FileTune2}},
     baselines : SUBSET {FluteBaseline, ClarinetBaseline},
     font : BOOLEAN,
     throwsEarly : {{}, {"Flute"}}, throwsLate : {{}, {"Clarinet_in_Bb"}}]
    \cup
    [hasTrimmed : {FALSE}, trimmed : {<<>>}, corrupt : {{}}, baselines : {{}},
     font : {TRUE}, throwsEarly : {{}}, throwsLate : {{}}]

\* fs.writeFileSync and the writer's output: the file at path gets content
writeFile(files, path, content) ==
    {f \in files : f.path # path} \cup {[path |-> path, content |-> content]}

\* lines 196-199 on this disk
matchingFiles(instr, w) == SelectSeq(w.trimmed, LAMBDA f : includesInstrument(f, instr))

\* lines 207-224 on this disk
sizesOnDisk(files, w) ==
    [i \in DOMAIN files |-> IF files[i] \in w.corrupt THEN Unreadable ELSE sizeOfFile(files[i])]

catalogOf(instr, w) ==
    readable(matchingFiles(instr, w), sizesOnDisk(matchingFiles(instr, w), w))

\* lines 240-248 on this disk
readBaseline(instr, w) ==
    LET found == {f \in w.baselines : f.path = baselineFile(instr)}
    IN  IF found = {} THEN [exists |-> FALSE, lines |-> <<>>]
        ELSE [exists |-> TRUE, lines |-> (CHOOSE f \in found : TRUE).lines]

\* lines 232-779 as one step: the document the writer has when it is ended,
\* as the index entries in order and the file names of every page group
bookletOf(instr, w) ==
    LET valid == catalogOf(instr, w)
        b == readBaseline(instr, w)
        orig == originalOf(valid, b)
        app == appendixOf(valid, b)
        withAppendix == b.exists /\ Len(app) > 0
        maxW == maxWidth(valid)
        oPages == pagesAtWidth(orig, maxW)
        aPages == IF withAppendix THEN pagesAtWidth(app, maxW) ELSE <<>>
        entries == originalEntries(oPages, instr)
                       \o (IF withAppendix
                           THEN appendixEntries(aPages, Len(oPages), instr)
                           ELSE <<>>)
        groups == oPages \o aPages
    IN  [by |-> instr.file,
         complete |-> TRUE,
         index |-> IF w.font THEN sortByTitle(entries) ELSE <<>>,
         pages |-> [i \in DOMAIN groups |-> Filenames(groups[i])],
         urls |-> IF w.font
                  THEN {f \in Range(Filenames(valid)) :
                          linkFileName(titleOf(f, instr)) \in Range(w.trimmed)}
                  ELSE {},
         goTo |-> FALSE,
         uri |-> {}]

\* What the writer leaves on disk when the call throws while drawing
partialFile(instr) ==
    [by |-> instr.file, complete |-> FALSE, index |-> <<>>, pages |-> <<>>,
     urls |-> {}, goTo |-> FALSE, uri |-> {}]

noDocument == partialFile([file |-> ""])

\* Mutant: the rejection of the call is not reported
reportRejectionSilently(log, instr) == log

\* line 921-923: .catch((error) => console.error(`Error combining images for ...`))
reportRejection(log, instr) ==
    Append(log, errorMessage("Error combining images for", <<instr.file>>))

LoopInit ==
    /\ PackIdle
    /\ RunIdle
    /\ TitleIdle
    /\ world \in Worlds
    /\ disk = {}
    /\ runs = [i \in DOMAIN instruments |-> [pc |-> "waiting", doc |-> noDocument, log |-> <<>>]]
    /\ loopPos = 0

\* line 921, combinePDFs(instrument): the call up to its first await or its end
CallRun(i) ==
    LET instr == instruments[i]
        files == matchingFiles(instr, world)
        valid == catalogOf(instr, world)
        made == bookletOf(instr, world)
    IN  /\ loopPos = i - 1
        /\ loopPos' = i
        /\ IF ~world.hasTrimmed
           THEN /\ runs' = [runs EXCEPT ![i].pc = "returned",
                               ![i].log = <<errorMessage("'trimmed' directory not found", <<>>)>>]
                /\ UNCHANGED disk
           ELSE IF files = <<>>
           THEN /\ runs' = [runs EXCEPT ![i].pc = "returned",
                               ![i].log = <<errorMessage("No PNG files found", <<>>)>>]
                /\ UNCHANGED disk
           ELSE IF valid = <<>>
           THEN /\ runs' = [runs EXCEPT ![i].pc = "returned",
                               ![i].log = analysisErrors(files, sizesOnDisk(files, world))
                                   \o <<errorMessage("No valid PNG files to render.", <<>>)>>]
                /\ UNCHANGED disk
           ELSE IF instr.file \in world.throwsEarly
           THEN /\ runs' = [runs EXCEPT ![i].pc = "rejected",
                               ![i].log = analysisErrors(files, sizesOnDisk(files, world))]
                /\ UNCHANGED disk
           ELSE IF instr.file \in world.throwsLate
           THEN /\ runs' = [runs EXCEPT ![i].pc = "rejected",
                               ![i].log = analysisErrors(files, sizesOnDisk(files, world))]
                /\ disk' = writeFile(disk, outputPath(instr), partialFile(instr))
           ELSE /\ disk' = writeFile(disk, outputPath(instr), made)
                /\ runs' = [runs EXCEPT
                               ![i].pc = IF world.font /\ made.index # <<>>
                                         THEN "load" ELSE "returned",
                               ![i].doc = IF world.font /\ made.index # <<>>
                                          THEN made ELSE noDocument,
                               ![i].log = analysisErrors(files, sizesOnDisk(files, world))]
        /\ UNCHANGED <<world, packVars, runVars, titleVars>>

\* lines 790-841, after `await PDFDocument.load(pdfBytes)`: the GoTo links of
\* the index, up to the first `await import("pdf-lib")` or to `await pdfDoc.save()`
AddIndexLinks(i) ==
    /\ loopPos = Len(instruments)
    /\ runs[i].pc = "load"
    /\ runs' = [runs EXCEPT ![i].doc.goTo = TRUE,
                            ![i].pc = IF runs[i].doc.urls = {} THEN "save" ELSE "import"]
    /\ UNCHANGED <<world, disk, loopPos, packVars, runVars, titleVars>>

\* lines 857-887, after one `await import("pdf-lib")`: one external link
AddUrlLink(i) ==
    /\ loopPos = Len(instruments)
    /\ runs[i].pc = "import"
    /\ \E f \in runs[i].doc.urls \ runs[i].doc.uri :
          /\ runs' = [runs EXCEPT ![i].doc.uri = @ \cup {f},
                                  ![i].pc = IF runs[i].doc.urls = runs[i].doc.uri \cup {f}
                                            THEN "save" ELSE "import"]
    /\ UNCHANGED <<world, disk, loopPos, packVars, runVars, titleVars>>

\* lines 898-909, after `await pdfDoc.save()`: fs.writeFileSync(outputPath, ...)
SaveWithLinks(i) ==
    /\ loopPos = Len(instruments)
    /\ runs[i].pc = "save"
    /\ disk' = writeFile(disk, outputPath(instruments[i]), runs[i].doc)
    /\ runs' = [runs EXCEPT ![i].pc = "returned", ![i].doc = noDocument]
    /\ UNCHANGED <<world, loopPos, packVars, runVars, titleVars>>

\* lines 921-923: the handler of a rejected call
CatchRejection(i) ==
    /\ loopPos = Len(instruments)
    /\ runs[i].pc = "rejected"
    /\ runs' = [runs EXCEPT ![i].pc = "caught",
                            ![i].log = reportRejection(@, instruments[i])]
    /\ UNCHANGED <<world, disk, loopPos, packVars, runVars, titleVars>>

LoopNext ==
    \E i \in DOMAIN instruments :
        \/ CallRun(i)
        \/ AddIndexLinks(i)
        \/ AddUrlLink(i)
        \/ SaveWithLinks(i)
        \/ CatchRejection(i)

SpecLoop == LoopInit /\ [][LoopNext]_vars

----------------------------------------------------------------------------
\* Properties of the loop over the instruments (checked under SpecLoop)

\* Every call has returned or has been rejected and handled
Quiescent ==
    /\ loopPos = Len(instruments)
    /\ \A i \in DOMAIN runs : runs[i].pc \in {"returned", "caught"}

filesAt(path) == {f \in disk : f.path = path}

\* The files of the directory that are for the instrument and can be read
readableFilesOf(i) ==
    {f \in Range(world.trimmed) :
        includesInstrument(f, instruments[i]) /\ f \notin world.corrupt}

\* The instrument's catalog is empty, or its call throws
failedRun(i) ==
    \/ ~world.hasTrimmed
    \/ readableFilesOf(i) = {}
    \/ instruments[i].file \in world.throwsEarly \cup world.throwsLate

FailureTexts ==
    {"'trimmed' directory not found", "No PNG files found",
     "No valid PNG files to render.", "Error combining images for"}

\* The file is a finished booklet of the instrument: every readable image of
\* the instrument is on exactly one of its pages
completeBookletOf(i, f) ==
    /\ f.content.complete
    /\ f.content.by = instruments[i].file
    /\ \A img \in readableFilesOf(i) :
          Cardinality({n \in DOMAIN f.content.pages :
                          img \in Range(f.content.pages[n])}) = 1
    /\ \A n \in DOMAIN f.content.pages : Range(f.content.pages[n]) \subseteq readableFilesOf(i)
    /\ world.font => Len(f.content.index) = Cardinality(readableFilesOf(i))

\* C15: when an instrument's catalog is empty or its call throws, there is
\* no booklet of that instrument, its call has reported the failure, and the
\* booklet of every other instrument whose call does not fail is complete.
C15_FailureOfOneInstrumentIsContained ==
    Quiescent =>
        \A i \in DOMAIN instruments :
            failedRun(i) =>
                /\ \A f \in filesAt(outputPath(instruments[i])) : ~f.content.complete
                /\ \E n \in DOMAIN runs[i].log : runs[i].log[n].text \in FailureTexts
                /\ \A j \in DOMAIN instruments \ {i} :
                      ~failedRun(j) =>
                          \E f \in filesAt(outputPath(instruments[j])) : completeBookletOf(j, f)

\* The call for the flute threw and the clarinet's booklet is complete, and
\* the other way round with an empty catalog
C15_Witness ==
    /\ Quiescent
    /\ \E i, j \in DOMAIN instruments :
          /\ failedRun(i) /\ ~failedRun(j)
          /\ runs[i].pc = "caught"
          /\ \E f \in filesAt(outputPath(instruments[j])) :
                completeBookletOf(j, f) /\ f.content.goTo

\* The disk as the instrument's call sees it when the other instruments have
\* no file: only its own images and its own baseline file
worldOf(i) ==
    [world EXCEPT
        !.trimmed = SelectSeq(world.trimmed,
                        LAMBDA f : \A j \in DOMAIN instruments \ {i} :
                                      ~includesInstrument(f, instruments[j])),
        !.baselines = {b \in world.baselines : b.path = baselineFile(instruments[i])},
        !.throwsEarly = world.throwsEarly \cap {instruments[i].file},
        !.throwsLate = world.throwsLate \cap {instruments[i].file}]

\* What the call for the instrument leaves at its output path when it is the
\* only call: nothing, an unfinished file, or the booklet with its links
aloneOutput(i) ==
    LET instr == instruments[i]
        w == worldOf(i)
        made == bookletOf(instr, w)
    IN  IF ~w.hasTrimmed \/ catalogOf(instr, w) = <<>> \/ instr.file \in w.throwsEarly
        THEN {}
        ELSE IF instr.file \in w.throwsLate
        THEN {partialFile(instr)}
        ELSE IF w.font /\ made.index # <<>>
        THEN {[made EXCEPT !.goTo = TRUE, !.uri = made.urls]}
        ELSE {made}

\* C18: the calls for the instruments are all started before any is resumed
\* and are resumed in any order; each writes its own output file only, and
\* when all have ended every output file is what the call for its instrument
\* leaves when it runs alone, on a disk without the other instruments' files.
C18_RunsDoNotInterfere ==
    /\ \A f \in disk : \E i \in DOMAIN instruments :
          f.path = outputPath(instruments[i]) /\ f.content.by = instruments[i].file
    /\ \A i \in DOMAIN runs :
          runs[i].pc \in {"load", "import", "save"} => runs[i].doc.by = instruments[i].file
    /\ Quiescent =>
          \A i \in DOMAIN instruments :
              {f.content : f \in filesAt(outputPath(instruments[i]))} = aloneOutput(i)

\* Both calls were suspended with links to add, and both booklets are
\* written with their links
C18_Witness ==
    /\ Quiescent
    /\ \A i \in DOMAIN instruments :
          \E f \in filesAt(outputPath(instruments[i])) :
              f.content.complete /\ f.content.goTo /\ f.content.uri # {}

\* The GoTo links of the index pages, in the order added
indexLinks ==
    Flatten([i \in DOMAIN written |-> written[i].goTo])

imagePagesWritten == {i \in DOMAIN written : written[i].kind = "image"}

\* C19 as stated: every index entry has a GoTo link to the page at position
\* indexPages.length + targetPageIndex of the document, and that page is the
\* page the entry's image is drawn on.
C19_IndexLinksReachTheImage ==
    (pc = "done" /\ font) =>
        /\ Len(indexLinks) = Len(writtenLines)
        /\ \A n \in DOMAIN indexLinks :
              /\ indexLinks[n].file = writtenLines[n].file
              /\ indexLinks[n].target = Len(indexPages) + writtenLines[n].pageIndex
              /\ PagesShowing(indexLinks[n].file) = {indexLinks[n].target + 1}

\* C20 as stated: when no image is taller than contentHeight, one image page
\* is written per page group of allPages.
C20_OneImagePagePerGroup ==
    (pc = "done" /\ validImages # <<>>
        /\ \A i \in DOMAIN validImages : validImages[i].height * scale <= contentHeight * maxWidthPx) =>
        Cardinality(imagePagesWritten) = Len(originalPages) + Len(appendixPages)

----------------------------------------------------------------------------
\* Properties of the steps of packWithBFD and packWithKnapsack (checked
\* under SpecPack)

\* The item packWithBFD places next, and the open pages it fits on
bfdNext == Head(bfdQueue)

bfdNeededOn(i) ==
    bfdNext.scaledHeight + (IF bfdPages[i].items # <<>> THEN args.imageGap ELSE 0)

bfdResidualOn(i) == args.contentHeight - (bfdPages[i].used + bfdNeededOn(i))

bfdFitting == {i \in DOMAIN bfdPages : bfdResidualOn(i) >= 0}

\* The used height of a page is that of its items and the gaps between them
bfdUsedIsHeight ==
    \A i \in DOMAIN bfdPages :
        bfdPages[i].used = SumSeq([k \in DOMAIN bfdPages[i].items |->
                                      bfdPages[i].items[k].scaledHeight])
                             + args.imageGap * (Len(bfdPages[i].items) - 1)

\* C21: packWithBFD takes the items in non-increasing scaled height and puts
\* each on the open page it fits on that is left with the least residual
\* capacity, the earliest of these on ties; it opens a new page only when
\* the item fits on no open page.
C21_BestFitDecreasing ==
    /\ [](\A m, n \in DOMAIN bfdQueue :
             m < n => bfdQueue[m].scaledHeight >= bfdQueue[n].scaledHeight)
    /\ [](packPc = "bfd" => bfdUsedIsHeight)
    /\ [][(packPc = "bfd" /\ bfdQueue # <<>>) =>
            IF bfdFitting = {}
            THEN bfdPages' = Append(bfdPages, [items |-> <<bfdNext>>,
                                               used |-> bfdNext.scaledHeight])
            ELSE \E b \in bfdFitting :
                    /\ \A j \in bfdFitting :
                          \/ bfdResidualOn(b) < bfdResidualOn(j)
                          \/ (bfdResidualOn(b) = bfdResidualOn(j) /\ b <= j)
                    /\ bfdPages' = [bfdPages EXCEPT
                                       ![b] = [items |-> Append(@.items, bfdNext),
                                               used |-> @.used + bfdNeededOn(b)]]]_vars

\* The item placed last went to a later page although the first page had
\* room for it
C21_Witness ==
    /\ packPc = "bfd"
    /\ Len(bfdPages) >= 2
    /\ \E b \in 2 .. Len(bfdPages) :
          LET placed == sortTallestFirst(items)[Len(items) - Len(bfdQueue)]
              onB == bfdPages[b].items
          IN  /\ Len(items) > Len(bfdQueue)
              /\ Len(onB) >= 2
              /\ onB[Len(onB)] = placed
              /\ bfdPages[1].used + args.imageGap + placed.scaledHeight <= args.contentHeight

\* One iteration of `while (rest.length > 0)` is about to run
dpIterating == packPc = "knapsack" /\ rest # <<>>

\* The positions in rest of the items on the page the iteration adds
dpChosen ==
    LET page == dpPages'[Len(dpPages')]
    IN  {i \in DOMAIN rest : \E k \in DOMAIN page : page[k].idx = rest[i].idx}

subsetWeight(S) ==
    SumSeq([i \in DOMAIN rest |->
        IF i \in S THEN Ceil(rest[i].scaledHeight + args.imageGap, args.den) ELSE 0])

subsetValue(S) ==
    SumSeq([i \in DOMAIN rest |->
        IF i \in S THEN Floor(rest[i].scaledHeight, args.den) ELSE 0])

feasibleSubsets ==
    {S \in SUBSET DOMAIN rest :
        subsetWeight(S) <= Floor(args.contentHeight + args.imageGap, args.den)}

tallestOfRest ==
    CHOOSE t \in DOMAIN rest : \A i \in DOMAIN rest :
        \/ rest[t].scaledHeight > rest[i].scaledHeight
        \/ (rest[t].scaledHeight = rest[i].scaledHeight /\ t <= i)

\* C22 as stated: in every iteration of packWithKnapsack the chosen subset is
\* one of the subsets of rest of total weight <= floor(contentHeight + gap)
\* and has the greatest total value among them.
C22_ChosenHasMaximumValue ==
    [][dpIterating =>
        /\ dpChosen \in feasibleSubsets
        /\ \A S \in feasibleSubsets : subsetValue(S) <= subsetValue(dpChosen)]_vars

\* C22: in every iteration of packWithKnapsack in which some subset of rest
\* of total weight <= floor(contentHeight + gap) has a positive value, the
\* chosen subset is such a subset of the greatest total value; in the other
\* iterations the tallest item of rest (the earliest of them) is chosen alone,
\* whatever its weight.
C22_ChosenHasMaximumValueOrIsTallest ==
    [][dpIterating =>
        IF \E S \in feasibleSubsets : subsetValue(S) > 0
        THEN /\ dpChosen \in feasibleSubsets
             /\ \A S \in feasibleSubsets : subsetValue(S) <= subsetValue(dpChosen)
        ELSE dpChosen = {tallestOfRest}]_vars

\* An iteration has put several items on a page and left an item that no
\* longer fits on it
C22_Witness ==
    /\ packPc = "knapsack"
    /\ iterations >= 1
    /\ Len(dpPages[Len(dpPages)]) >= 2
    /\ \E i \in DOMAIN rest :
          pageUsed(dpPages[Len(dpPages)], args.imageGap) + args.imageGap
              + rest[i].scaledHeight > args.contentHeight

\* C23: in every iteration of packWithKnapsack whose subset the knapsack
\* chose, no subset of rest of total weight <= floor(contentHeight + gap)
\* and of the same, greatest, total value has more items than the chosen one.
C23_ChosenIsLargestOfBest ==
    [][(dpIterating /\ dpChosen \in feasibleSubsets) =>
        \A S \in feasibleSubsets :
            subsetValue(S) >= subsetValue(dpChosen) =>
                Cardinality(S) <= Cardinality(dpChosen)]_vars

\* C24: with gap > 0 every iteration of `while (rest.length > 0)` takes at
\* least one item out of rest, the loop makes no more iterations than there
\* are items that are not oversized, and it ends with rest empty.
C24_KnapsackLoopTerminates ==
    /\ [][(args.imageGap > 0 /\ dpIterating) =>
            /\ Len(rest') < Len(rest)
            /\ dpChosen # {}
            /\ iterations' = iterations + 1]_vars
    /\ [](args.imageGap > 0 =>
            iterations + Len(rest) <=
                Cardinality({i \in DOMAIN items :
                                items[i].scaledHeight <= args.contentHeight}))
    /\ [](packPc = "done" => rest = <<>>)
    /\ <>(args.imageGap > 0 => packPc = "done")

\* The loop has ended after an iteration in which the knapsack chose nothing
\* and the tallest item was taken
C24_Witness ==
    /\ packPc = "done"
    /\ args.imageGap > 0
    /\ iterations >= 2
    /\ \E p \in DOMAIN dpPages :
          /\ Len(dpPages[p]) = 1
          /\ dpPages[p][1].scaledHeight <= args.contentHeight
          /\ Ceil(dpPages[p][1].scaledHeight + args.imageGap, args.den)
                > Floor(args.contentHeight + args.imageGap, args.den)

\* The images of a packing, page after page
imagesOf(pages) == Flatten(pages)

\* Every image handed in is on exactly one page, once, and no page is empty
HoldsEveryImageOnce(pages) ==
    /\ \A p \in DOMAIN pages : pages[p] # <<>>
    /\ Len(imagesOf(pages)) = Len(args.images)
    /\ \A i \in DOMAIN args.images :
          Cardinality({k \in DOMAIN imagesOf(pages) :
                          imagesOf(pages)[k] = args.images[i]}) = 1

\* C29: the pages groupImagesIntoPages returns, and those of packWithBFD and
\* of packWithKnapsack, hold every input image exactly once and none of them
\* is empty; for no images the result is the empty list of pages.
C29_EveryImageOnExactlyOnePage ==
    packPc = "done" =>
        /\ HoldsEveryImageOnce(best)
        /\ HoldsEveryImageOnce(pagesBFD)
        /\ HoldsEveryImageOnce(pagesDP)
        /\ args.images = <<>> => best = <<>>

\* A finished call for several images whose two packings differ in their
\* number of pages and put several images on a page
C29_Witness ==
    /\ packPc = "done"
    /\ Len(args.images) >= 4
    /\ Len(pagesBFD) # Len(pagesDP)
    /\ \E p \in DOMAIN pagesBFD : Len(pagesBFD[p]) >= 2
    /\ \E p \in DOMAIN pagesDP : Len(pagesDP[p]) >= 2

----------------------------------------------------------------------------
\* Properties of the image pages (checked under Spec)

\* The pages written that carry the header 'New Tunes'
headerPages == {i \in DOMAIN written : written[i].header}

\* C26 as stated: with an appendix and a font the header 'New Tunes' is on
\* exactly one page of the booklet, that page holds the first image of the
\* first appendix page group and no original image; without an appendix no
\* page carries the header.
C26_HeaderOnFirstAppendixPage ==
    pc = "done" =>
        /\ (hasAppendix /\ font) =>
              /\ Cardinality(headerPages) = 1
              /\ \A i \in headerPages :
                    /\ \E m \in DOMAIN written[i].images :
                          written[i].images[m].filename = appendixPages[1][1].filename
                    /\ \A m \in DOMAIN written[i].images :
                          written[i].images[m].filename
                              \notin Range(Filenames(originalImages))
        /\ ~hasAppendix => headerPages = {}

\* C27: every image drawn whose scaled height is at most contentHeight lies
\* between margin.bottom and pageHeight - margin.top, whatever header or link
\* spacing came before it on its page.
C27_ImagesInsideContentArea ==
    \A k \in DOMAIN drawnImages :
        drawnImages[k].height <= Cpt(contentHeight) =>
            /\ drawnImages[k].y >= Pt(marginBottom)
            /\ drawnImages[k].y + drawnImages[k].height
                  <= Cpt(pageHeight) - Pt(marginTop)

\* A booklet whose header and link spacings moved an image that fits a page
\* to the next page: more image pages than page groups, no image oversized
C27_Witness ==
    /\ pc = "done"
    /\ font
    /\ hasAppendix
    /\ \A k \in DOMAIN drawnImages : drawnImages[k].height <= Cpt(contentHeight)
    /\ Cardinality(imagePagesWritten) > Len(allPages)

\* C30: the image pages carry the numbers 1, 2, 3, ... in the order they are
\* written, the pages the spill branch adds included, however many index
\* pages come before them; index pages carry no number (and without a font
\* no page does).
C30_ImagePagesNumberedFromOne ==
    \A i \in DOMAIN written :
        IF written[i].kind = "image" /\ font
        THEN written[i].number = Cardinality({j \in imagePagesWritten : j <= i})
        ELSE written[i].number = 0

\* A booklet with an index page and at least three image pages, one of them
\* added by the spill branch
C30_Witness ==
    /\ pc = "done"
    /\ font
    /\ written[1].kind = "index"
    /\ Cardinality(imagePagesWritten) >= 3
    /\ Cardinality(imagePagesWritten) > Len(allPages)

----------------------------------------------------------------------------
\* Specification SpecTitle: the title of one line of the index, measured and
\* cut to the room left of the page number.  Widths are in 1/1000 point.

\* The advance widths, in 1/1000 em, of the glyphs of the lines rendered
\* here, for two of the fonts the program looks for
Fonts ==
    { [name |-> "Arial", W |-> 944, i |-> 222, digit |-> 556, dot |-> 278,
       ellipsis |-> 1000],
      [name |-> "DejaVuSans", W |-> 989, i |-> 278, digit |-> 636, dot |-> 318,
       ellipsis |-> 1000] }

\* const ellipsis = "…" (one character)
ellipsis == "..."

advance(c) ==
    CASE c = "W" -> glyphs.W
      [] c = "i" -> glyphs.i
      [] c = "." -> glyphs.dot
      [] c = ellipsis -> glyphs.ellipsis
      [] OTHER -> glyphs.digit

\* font.calculateTextDimensions(text, size).width || 0
calculateTextWidth(text, size) ==
    SumSeq([k \in DOMAIN text |-> advance(text[k]) * size])

\* const columnWidth = contentWidth / 2
columnWidth == (contentWidth * 10) \div 2

\* const columnRight = margin.left + columnWidth
columnRight == marginLeft * 1000 + columnWidth

\* dotWidth = font.calculateTextDimensions(dotChar, lineSize).width || 0
dotWidth == calculateTextWidth(<<".">>, lineSize)

\* const numX = columnRight - numWidth, for pageText = String(item.page)
numX == columnRight - calculateTextWidth(decimal(titleItem.page), lineSize)

\* let maxTitleWidth = numX - margin.left - gap - (dotWidth || 3)
maxTitleWidth ==
    numX - marginLeft * 1000 - indexGap * 1000 - (IF dotWidth # 0 THEN dotWidth ELSE 3000)

\* Mutant: the prefix is measured without the ellipsis
candidateTextNoEllipsis(text, mid) == SubSeq(text, 1, mid)

\* const candidate = titleText.slice(0, mid) + ellipsis
candidateText(text, mid) == SubSeq(text, 1, mid) \o <<ellipsis>>

\* Titles of up to n characters: wide ones, then narrow ones
Titles(n) ==
    {t \in {[k \in 1 .. a |-> "W"] \o [k \in 1 .. b |-> "i"] :
                a \in 0 .. n, b \in 0 .. n} : Len(t) <= n}

TitlePages == {1, 12}

TitleInit ==
    /\ PackIdle
    /\ RunIdle
    /\ LoopIdle
    /\ titlePc = "measure"
    /\ glyphs \in Fonts
    /\ \E t \in Titles(MaxTitle), p \in TitlePages : titleItem = [title |-> t, page |-> p]
    /\ titleText = titleItem.title
    /\ low = 0
    /\ high = 0

\* lines 504-512: measure the title; a title that is too wide is searched
TitleMeasure ==
    /\ titlePc = "measure"
    /\ IF calculateTextWidth(titleText, lineSize) > maxTitleWidth
       THEN /\ low' = 0
            /\ high' = Len(titleText)
            /\ titlePc' = "search"
       ELSE /\ titlePc' = "done"
            /\ UNCHANGED <<low, high>>
    /\ UNCHANGED <<titleItem, glyphs, titleText, packVars, runVars, loopVars>>

\* lines 513-520: one iteration of `while (low < high)`
TitleProbe ==
    /\ titlePc = "search"
    /\ low < high
    /\ LET mid == (low + high + 1) \div 2
           cWidth == calculateTextWidth(candidateText(titleText, mid), lineSize)
       IN  IF cWidth <= maxTitleWidth
           THEN low' = mid /\ UNCHANGED high
           ELSE high' = mid - 1 /\ UNCHANGED low
    /\ UNCHANGED <<titlePc, titleItem, glyphs, titleText, packVars, runVars, loopVars>>

\* line 521: titleText = titleText.slice(0, low) + ellipsis
TitleCut ==
    /\ titlePc = "search"
    /\ low >= high
    /\ titleText' = SubSeq(titleText, 1, low) \o <<ellipsis>>
    /\ titlePc' = "done"
    /\ UNCHANGED <<titleItem, glyphs, low, high, packVars, runVars, loopVars>>

TitleNext == TitleMeasure \/ TitleProbe \/ TitleCut

SpecTitle == TitleInit /\ [][TitleNext]_vars

\* The title with its first k characters kept and the ellipsis after them
prefixWithEllipsis(k) == SubSeq(titleItem.title, 1, k) \o <<ellipsis>>

renderedWidth(text) == calculateTextWidth(text, lineSize)

\* C25: a title wider than maxTitleWidth is rendered as the longest of its
\* prefixes that fits within maxTitleWidth with the ellipsis after it,
\* followed by the ellipsis, and the rendered title is not wider than
\* maxTitleWidth; a title that fits is rendered as it is.
C25_TitleCutToLongestFittingPrefix ==
    titlePc = "done" =>
        IF renderedWidth(titleItem.title) <= maxTitleWidth
        THEN titleText = titleItem.title
        ELSE /\ renderedWidth(titleText) <= maxTitleWidth
             /\ \E k \in 0 .. Len(titleItem.title) :
                   /\ titleText = prefixWithEllipsis(k)
                   /\ \A j \in k + 1 .. Len(titleItem.title) :
                         renderedWidth(prefixWithEllipsis(j)) > maxTitleWidth

\* A title that was cut among its narrow characters, with room left for at
\* most one more of them
C25_Witness ==
    /\ titlePc = "done"
    /\ renderedWidth(titleItem.title) > maxTitleWidth
    /\ Len(titleText) >= 3
    /\ titleText[Len(titleText) - 1] = "i"
    /\ titleText[1] = "W"
    /\ titleText[Len(titleText)] = ellipsis

\* The file name ends in ".png", in lower case
EndsInPng(img) == img.filename[Len(img.filename)] = ".png"

\* The baseline file is the one create_baseline.sh makes of the directory
BaselineJustCreated ==
    Partitioned /\ baseline = createBaseline(trimmed, instrument)

====
